---- MODULE Spec2Model ----
(***************************************************************************)
(* cdk-ec2-key-pair: the Lambda function behind the custom resource        *)
(* Custom::EC2-Key-Pair (src/lambda/index.ts, the async handler of lines   *)
(* 879-1548), together with the two remote services it talks to (EC2 key   *)
(* pairs, Secrets Manager secrets) and the stream of lifecycle events      *)
(* CloudFormation sends for one logical resource.                          *)
(*                                                                         *)
(* All values that cross the Lambda boundary are strings, as in the code:  *)
(* secret ids are the concatenation SecretPrefix \o Name \o "/private".    *)
(***************************************************************************)
EXTENDS Integers, Sequences, FiniteSets, TLC

VARIABLES
    slice,      \* which family of resource properties this behaviour draws its events from
    keyPairs,   \* EC2: key pair name -> key pair (or NoKeyPair)
    secrets,    \* Secrets Manager: secret name -> secret (or NoSecret)
    cfn,        \* CloudFormation's record of the logical resource: status and properties
    event,      \* the lifecycle event being handled: RequestType, ResourceProperties, OldResourceProperties
    pc,         \* the handler's position (the function about to be awaited)
    keyPair,    \* the handler's local `keyPair` (CreateKeyPair / ImportKeyPair / DescribeKeyPairs result)
    response,   \* resource.addResponseValue: attribute name -> value
    outcome,    \* what the custom resource reports: "none", "SUCCESS" or "FAILED"
    error,      \* the message of the error that failed the invocation ("" when none)
    calls,      \* the remote calls issued by the current invocation, in order
    atStart,    \* what the services held when the current invocation began
    nEvents,    \* lifecycle events delivered so far
    nOutOfBand  \* out-of-band changes made by an operator so far

vars == <<slice, keyPairs, secrets, cfn, event, pc, keyPair, response, outcome,
          error, calls, atStart, nEvents, nOutOfBand>>

-----------------------------------------------------------------------------
(* Bounds of the model *)

\* lifecycle events delivered to the function in one behaviour
MaxEvents == 3

\* out-of-band removals (an operator deleting a key pair or a secret by hand)
MaxOutOfBand == 1

-----------------------------------------------------------------------------
(* Values *)

\* JavaScript's undefined (a property the event does not carry)
Undefined == "undefined"

\* a ?? b
Coalesce(a, b) == IF a = Undefined THEN b ELSE a

Names == {"k1", "k2"}
Prefixes == {"ec2-ssh-key/", "alt/"}
PublicKeys == {"", "ssh-rsa AAAA"}
Booleans == {"true", "false"}
Descriptions == {"", "desc"}

\* enum KeyType
KeyTypes == {"rsa", "ed25519"}

\* enum PublicKeyFormat (three of its seven members: the default, the one
\* that is base64-encoded when exposed, the one ed25519 cannot be written in)
PublicKeyFormats == {"openssh", "rfc4253", "pkcs1"}
RFC4253 == "rfc4253"

\* the tag the construct puts on every resource it creates
createdByTag == "CreatedByCfnCustomResource"
ID == "CFN::Resource::Custom::EC2-Key-Pair"

\* the stack the logical resource belongs to
StackId == "arn:aws:cloudformation:stack/S/1"
StackName == "S"
LogicalResourceId == "Key"

\* user tags: keys and values
TagKeys == {"env", "team"}
TagValues == {"dev", "prod"}

\* Object.keys() enumerates a tag map in a fixed order
KeyOrder == <<createdByTag, "env", "team">>

\* all user tag maps over TagKeys
UserTagMaps == UNION {[D -> TagValues] : D \in SUBSET TagKeys}

\* RenderTags without the construct's own tag
RenderTags_UserOnly(user) == user

\* KeyPair.constructor: the Tags property is the TagManager's rendering, which
\* always holds the construct's createdByTag besides the user's tags
RenderTags(user) ==
    [k \in DOMAIN user \cup {createdByTag} |->
        IF k = createdByTag THEN ID ELSE user[k]]

TagMaps == {RenderTags(u) : u \in UserTagMaps}

\* the tag maps the events of the tags family carry: no user tag, either one,
\* one with another value, or both
UpdatedTagMaps ==
    {RenderTags(u) :
        u \in {um \in UserTagMaps :
                  "team" \in DOMAIN um =>
                     /\ um["team"] = "dev"
                     /\ "env" \in DOMAIN um => um["env"] = "dev"}}

\* PrivateSecretId under the default prefix, whatever SecretPrefix says
PrivateSecretId_DefaultPrefix(p) == "ec2-ssh-key/" \o p.Name \o "/private"

\* the secret names of a resource
PrivateSecretId(p) == p.SecretPrefix \o p.Name \o "/private"
PublicSecretId(p) == p.SecretPrefix \o p.Name \o "/public"

SecretIds ==
    {pre \o n \o k : pre \in Prefixes, n \in Names, k \in {"/private", "/public"}}

-----------------------------------------------------------------------------
(* Resource properties: the families of events a behaviour draws from *)

DefaultKms == "alias/aws/secretsmanager"

\* the properties the construct sends when every option is left at its default
BaseProps ==
    [Name |-> "k1", Description |-> "", KmsPrivate |-> DefaultKms,
     KmsPublic |-> DefaultKms, PublicKey |-> "", StorePublicKey |-> "false",
     ExposePublicKey |-> "false", KeyType |-> "rsa",
     PublicKeyFormat |-> "openssh", RemoveKeySecretsAfterDays |-> <<"0">>,
     SecretPrefix |-> "ec2-ssh-key/", StackName |-> StackName,
     Tags |-> RenderTags(<<>>)]

\* RemoveKeySecretsAfterDays as transmitted: a string of characters
DaysInputs == {<<"0">>, <<"7">>, <<"1", "0">>, <<"x">>}

Slices ==
    {"immutable", "tags", "publickey", "secrets", "retention", "preexisting",
     "exposed"}

\* the tags of an exposed key: none of the user's, or one
ExposedTagMaps == {RenderTags(<<>>), RenderTags([k \in {"env"} |-> "dev"])}

\* the resources whose tags are updated: a generated key pair with both
\* secrets, an imported one with none
TaggedKinds == {<<"", "true">>, <<"ssh-rsa AAAA", "false">>}

\* the resource properties events are drawn from, per family
Universe(s) ==
    CASE s = "immutable" ->
           {[BaseProps EXCEPT !.Name = n, !.PublicKey = pk, !.StorePublicKey = st,
                              !.KeyType = kt] :
               n \in Names, pk \in PublicKeys, st \in Booleans,
               kt \in KeyTypes \cup {Undefined}}
      [] s = "tags" ->
           {[BaseProps EXCEPT !.Tags = t, !.PublicKey = c[1], !.StorePublicKey = c[2]] :
               t \in UpdatedTagMaps, c \in TaggedKinds}
      [] s = "publickey" ->
           {[BaseProps EXCEPT !.PublicKey = pk, !.StorePublicKey = st,
                              !.ExposePublicKey = ex, !.KeyType = kt,
                              !.PublicKeyFormat = f] :
               pk \in PublicKeys, st \in Booleans, ex \in Booleans,
               kt \in KeyTypes, f \in PublicKeyFormats}
      [] s = "secrets" ->
           {[BaseProps EXCEPT !.SecretPrefix = pre, !.Description = d,
                              !.PublicKey = pk, !.StorePublicKey = st,
                              !.ExposePublicKey = ex] :
               pre \in Prefixes, d \in Descriptions,
               pk \in PublicKeys, st \in Booleans, ex \in Booleans}
      [] s = "retention" ->
           {[BaseProps EXCEPT !.RemoveKeySecretsAfterDays = days,
                              !.PublicKey = pk, !.StorePublicKey = st] :
               days \in DaysInputs, pk \in PublicKeys, st \in Booleans}
      [] s = "preexisting" ->
           {[BaseProps EXCEPT !.PublicKey = pk, !.StorePublicKey = st] :
               pk \in PublicKeys, st \in Booleans}
      [] s = "exposed" ->
           {[BaseProps EXCEPT !.Tags = t, !.PublicKey = pk,
                              !.StorePublicKey = "true",
                              !.ExposePublicKey = "true"] :
               t \in ExposedTagMaps, pk \in PublicKeys}

\* ResourceProperties.KeyType is not optional: a Create always carries it
CreateUniverse(s) == {p \in Universe(s) : p.KeyType # Undefined}

-----------------------------------------------------------------------------
(* Tags *)

\* Object.keys(eventTags)
ObjectKeys(m) == SelectSeq(KeyOrder, LAMBDA k : k \in DOMAIN m)

\* makeTags returning the event's tags alone when there are any
makeTags_EventTagsOnly(e, eventTags) ==
    [i \in 1..Len(ObjectKeys(eventTags)) |->
        [Key |-> ObjectKeys(eventTags)[i],
         Value |-> eventTags[ObjectKeys(eventTags)[i]]]]

\* makeTags: the three provenance tags, then the event's tags
makeTags(e, eventTags) ==
    LET tags == << [Key |-> "aws-cloudformation:stack-id", Value |-> e.StackId],
                   [Key |-> "aws-cloudformation:stack-name",
                    Value |-> e.ResourceProperties.StackName],
                   [Key |-> "aws-cloudformation:logical-id",
                    Value |-> e.LogicalResourceId] >>
    IN  IF Len(ObjectKeys(eventTags)) > 0
        THEN tags \o [i \in 1..Len(ObjectKeys(eventTags)) |->
                        [Key |-> ObjectKeys(eventTags)[i],
                         Value |-> eventTags[ObjectKeys(eventTags)[i]]]]
        ELSE tags

\* missingTags comparing the values as well as the keys
missingTags_ByValue(newTags, currentTag) ==
    Len(SelectSeq(newTags, LAMBDA newTag :
            newTag.Key = currentTag.Key /\ newTag.Value = currentTag.Value)) = 0

\* missingTags(newTags)(currentTag)
missingTags(newTags, currentTag) ==
    Len(SelectSeq(newTags, LAMBDA newTag : newTag.Key = currentTag.Key)) = 0

\* getMissingTags: the keys of oldTags that no entry of newTags carries
getMissingTags(oldTags, newTags) ==
    LET missing == SelectSeq(oldTags, LAMBDA tag : missingTags(newTags, tag))
    IN  [i \in 1..Len(missing) |-> missing[i].Key]

\* the tag set a service stores after it is given a tag list (later entries win)
RECURSIVE ApplyTags(_, _)
ApplyTags(stored, list) ==
    IF list = <<>> THEN stored
    ELSE LET t == Head(list)
         IN  ApplyTags([k \in DOMAIN stored \cup {t.Key} |->
                          IF k = t.Key THEN t.Value ELSE stored[k]],
                       Tail(list))

NoTags == [k \in {} |-> ""]

\* EC2 DeleteTags: a tag is removed when its key is listed and the listed value
\* is the stored one
Ec2RemoveTags(stored, list) ==
    LET gone == {k \in DOMAIN stored :
                   \E i \in 1..Len(list) :
                       list[i].Key = k /\ list[i].Value = stored[k]}
    IN  [k \in DOMAIN stored \ gone |-> stored[k]]

\* Secrets Manager UntagResource: the listed keys are removed
SmRemoveTags(stored, keys) ==
    [k \in DOMAIN stored \ {keys[i] : i \in 1..Len(keys)} |-> stored[k]]

\* whether a tag list or a stored tag set carries the ownership tag
ListHasOwnerTag(list) ==
    \E i \in 1..Len(list) : list[i].Key = createdByTag /\ list[i].Value = ID
HasOwnerTag(stored) ==
    createdByTag \in DOMAIN stored /\ stored[createdByTag] = ID

-----------------------------------------------------------------------------
(* The remote services *)

NoKeyPair == [exists |-> FALSE]
NoSecret == [exists |-> FALSE]

\* the access policy of the function's role (KeyPair.ensureLambda): creating and
\* tagging need the ownership tag in the request, changing and deleting need it
\* on the resource
AllowedByRequestTag(requestTags) == ListHasOwnerTag(requestTags)

\* AllowedByResourceTag without the condition on the resource's tag
AllowedByResourceTag_Unconditional(resourceTags) == TRUE

AllowedByResourceTag(resourceTags) == HasOwnerTag(resourceTags)

\* the key material EC2 generates: new for every CreateKeyPair call
NewKeyMaterial(keyType, n) == "PRIVATE KEY " \o keyType \o " #" \o ToString(n)
NewKeyPairId(name, n) == "key-" \o name \o "-" \o ToString(n)
Fingerprint(material) == "fp(" \o material \o ")"
Arn(secretId) == "arn:aws:secretsmanager:secret:" \o secretId

\* the key type a piece of generated key material is of
MaterialType(material) ==
    IF \E n \in 0..(MaxEvents + 1) : material = NewKeyMaterial("ed25519", n)
    THEN "ed25519" ELSE "rsa"

\* sshpk: parsePrivateKey(keyMaterial), comment set, .toPublic().toString(format).
\* An ed25519 public key cannot be written as PKCS#1.
CanEncode(material, format) ==
    ~(MaterialType(material) = "ed25519" /\ format = "pkcs1")

\* PublicKeyString handing back the private key it was given
PublicKeyString_PrivateKey(material, comment, format) == material

\* privateKey.toPublic().toString(format), with the comment set to the name
PublicKeyString(material, comment, format) ==
    format \o " public key of [" \o material \o "] " \o comment

\* Buffer.from(s).toString('base64')
Base64(s) == "base64(" \o s \o ")"

\* parseInt(String(v)) for a string of characters: the leading digits, NaN when
\* there is none
Digits == <<"0", "1", "2", "3", "4", "5", "6", "7", "8", "9">>
IsDigit(c) == \E i \in 1..10 : Digits[i] = c
DigitValue(c) == (CHOOSE i \in 1..10 : Digits[i] = c) - 1
RECURSIVE ParseDigits(_, _)
ParseDigits(chars, acc) ==
    IF chars = <<>> \/ ~IsDigit(Head(chars)) THEN acc
    ELSE ParseDigits(Tail(chars), 10 * acc + DigitValue(Head(chars)))
IsNaN(chars) == chars = <<>> \/ ~IsDigit(Head(chars))
parseInt(chars) == ParseDigits(chars, 0)

\* one remote call as the function issued it, and how the service answered
Call(op, target, result) ==
    [op |-> op, target |-> target, result |-> result, Tags |-> <<>>,
     TagKeys |-> <<>>, SecretString |-> Undefined, Description |-> Undefined,
     KmsKeyId |-> Undefined, RecoveryWindowInDays |-> 0,
     ForceDeleteWithoutRecovery |-> FALSE]

\* the answers of a service: the call went through, or it raised the named error
Ok == "ok"
ServiceError == "ServiceUnavailable"
AccessDenied == "AccessDenied"

-----------------------------------------------------------------------------
(* The custom resource framework: properties, response values, outcome *)

\* resource.properties.<field>.changed
Changed(e, field) ==
    e.RequestType = "Update"
    /\ e.ResourceProperties[field] # e.OldResourceProperties[field]

NoProps == [Name |-> Undefined]
NoEvent ==
    [RequestType |-> "none", ResourceProperties |-> NoProps,
     OldResourceProperties |-> NoProps, StackId |-> StackId,
     LogicalResourceId |-> LogicalResourceId]
NoResult == [KeyName |-> Undefined]
NoResponse == [k \in {} |-> ""]

\* resource.addResponseValue(name, value)
addResponseValue(r, name, value) ==
    [k \in DOMAIN r \cup {name} |-> IF k = name THEN value ELSE r[k]]

\* a response attribute, undefined when it was never set
Attr(name) == IF name \in DOMAIN response THEN response[name] ELSE Undefined

\* the handler's promise is rejected with the error: the event is reported FAILED
Throw(msg) ==
    /\ pc' = "done"
    /\ outcome' = "FAILED"
    /\ error' = msg

\* the handler's promise resolves: the event is reported SUCCESS
Resolve ==
    /\ pc' = "done"
    /\ outcome' = "SUCCESS"
    /\ error' = ""

\* the handler goes on with its next await
Goto(next) ==
    /\ pc' = next
    /\ UNCHANGED <<outcome, error>>

\* CloudFormation's record of the resource once it has the response: a failed
\* Create leaves a resource to delete, a failed Update or Delete changes nothing
CfnAfter(e, success) ==
    CASE e.RequestType = "Create" ->
            [status |-> IF success THEN "created" ELSE "create_failed",
             props |-> e.ResourceProperties]
      [] e.RequestType = "Update" ->
            IF success THEN [cfn EXCEPT !.props = e.ResourceProperties] ELSE cfn
      [] e.RequestType = "Delete" ->
            IF success THEN [status |-> "none", props |-> NoProps] ELSE cfn

NoSnapshot == [keyPairs |-> <<>>, secrets |-> <<>>]

\* the response is sent and the invocation ends
Respond ==
    /\ pc = "done"
    /\ cfn' = CfnAfter(event, outcome = "SUCCESS")
    /\ pc' = "idle"
    /\ event' = NoEvent
    /\ keyPair' = NoResult
    /\ response' = NoResponse
    /\ outcome' = "none"
    /\ error' = ""
    /\ calls' = <<>>
    /\ atStart' = NoSnapshot
    /\ UNCHANGED <<slice, keyPairs, secrets, nEvents, nOutOfBand>>

-----------------------------------------------------------------------------
(* What the services hold *)

NewKeyPairRecord(name, id, fingerprint, tagList, origin) ==
    [exists |-> TRUE, KeyName |-> name, KeyPairId |-> id,
     KeyFingerprint |-> fingerprint, tags |-> ApplyTags(NoTags, tagList),
     origin |-> origin]

NewSecretRecord(id, value, description, kms, tagList, origin) ==
    [exists |-> TRUE, deleted |-> FALSE, ARN |-> Arn(id), SecretString |-> value,
     Description |-> description, KmsKeyId |-> kms,
     tags |-> ApplyTags(NoTags, tagList), origin |-> origin]

\* a secret that can be listed, read and changed (it exists and is not
\* scheduled for deletion)
Live(id) == secrets[id].exists /\ ~secrets[id].deleted

\* Every remote call either fails with a transient service error or is answered
\* according to what the service holds and what the role's policy allows.

\* the answers of EC2 to CreateKeyPair / ImportKeyPair
CreateKeyPairAnswers(name, tagList) ==
    {ServiceError,
     IF ~AllowedByRequestTag(tagList) THEN AccessDenied
     ELSE IF keyPairs[name].exists THEN "InvalidKeyPair.Duplicate"
     ELSE Ok}

\* the answers of Secrets Manager to CreateSecret
CreateSecretAnswers(id, tagList) ==
    {ServiceError,
     IF ~AllowedByRequestTag(tagList) THEN AccessDenied
     ELSE IF secrets[id].exists
          THEN (IF secrets[id].deleted THEN "InvalidRequestException"
                ELSE "ResourceExistsException")
     ELSE Ok}

\* the answers of Secrets Manager to a call that changes or reads a secret
SecretAnswers(id) ==
    {ServiceError,
     IF ~secrets[id].exists THEN "ResourceNotFoundException"
     ELSE IF ~AllowedByResourceTag(secrets[id].tags) THEN AccessDenied
     ELSE IF secrets[id].deleted THEN "InvalidRequestException"
     ELSE Ok}

\* the answers of Secrets Manager to TagResource
TagResourceAnswers(id, tagList) ==
    {ServiceError,
     IF ~secrets[id].exists THEN "ResourceNotFoundException"
     ELSE IF ~AllowedByRequestTag(tagList) THEN AccessDenied
     ELSE IF secrets[id].deleted THEN "InvalidRequestException"
     ELSE Ok}

\* the answers of EC2 to DescribeKeyPairs with KeyNames [name]: the key pair,
\* or for an unknown name an empty list or the error InvalidKeyPair.NotFound
DescribeKeyPairsAnswers(name) ==
    {ServiceError} \cup
    (IF keyPairs[name].exists THEN {Ok} ELSE {"empty", "InvalidKeyPair.NotFound"})

\* the answers of Secrets Manager to ListSecrets filtered by name: the secret,
\* or for a name it does not list an empty list or ResourceNotFoundException
ListSecretsAnswers(id) ==
    {ServiceError} \cup
    (IF Live(id) THEN {Ok} ELSE {"empty", "ResourceNotFoundException"})

\* keyPairExists taking a listed key pair for none
keyPairExists_ListedIsFalse(described) ==
    IF described = Ok THEN "false"
    ELSE IF described = "empty" THEN "false"
    ELSE IF described = "InvalidKeyPair.NotFound" THEN "false"
    ELSE IF described = "ResourceNotFoundException" THEN "false"
    ELSE "throw"

\* keyPairExists without the catch of InvalidKeyPair.NotFound
keyPairExists_NotFoundThrows(described) ==
    IF described = Ok THEN "true"
    ELSE IF described = "empty" THEN "false"
    ELSE IF described = "ResourceNotFoundException" THEN "false"
    ELSE "throw"

\* keyPairExists: true when DescribeKeyPairs lists a key pair, false when the
\* list is empty or the error is a not-found error; any other error is thrown
keyPairExists(described) ==
    IF described = Ok THEN "true"
    ELSE IF described = "empty" THEN "false"
    ELSE IF described = "InvalidKeyPair.NotFound" THEN "false"
    ELSE IF described = "ResourceNotFoundException" THEN "false"
    ELSE "throw"

\* secretExists taking an empty list for a secret
secretExists_EmptyIsTrue(listed) ==
    IF listed = Ok THEN "true"
    ELSE IF listed = "empty" THEN "true"
    ELSE IF listed = "ResourceNotFoundException" THEN "false"
    ELSE "throw"

\* secretExists taking every error for an absent secret
secretExists_AnyErrorIsFalse(listed) ==
    IF listed = Ok THEN "true" ELSE "false"

\* secretExists: true when ListSecrets lists a secret, false when the list is
\* empty or the error is ResourceNotFoundException; any other error is thrown
secretExists(listed) ==
    IF listed = Ok THEN "true"
    ELSE IF listed = "empty" THEN "false"
    ELSE IF listed = "ResourceNotFoundException" THEN "false"
    ELSE "throw"

-----------------------------------------------------------------------------
(* Create *)

\* handler: a Create event is dispatched to createResource
ReceiveCreate ==
    /\ pc = "idle"
    /\ cfn.status = "none"
    /\ nEvents < MaxEvents
    /\ \E p \in CreateUniverse(slice) :
          event' = [RequestType |-> "Create", ResourceProperties |-> p,
                    OldResourceProperties |-> NoProps, StackId |-> StackId,
                    LogicalResourceId |-> LogicalResourceId]
    /\ pc' = "createKeyPair"
    /\ calls' = <<>>
    /\ atStart' = [keyPairs |-> keyPairs, secrets |-> secrets]
    /\ response' = NoResponse
    /\ keyPair' = NoResult
    /\ outcome' = "none"
    /\ error' = ""
    /\ nEvents' = nEvents + 1
    /\ UNCHANGED <<slice, keyPairs, secrets, cfn, nOutOfBand>>

\* createKeyPair: a public key was provided, so it is imported
ImportsPublicKey(p) == Len(p.PublicKey) > 0

\* CreationTags passing the event's Tags without the provenance tags
CreationTags_EventTagsOnly(e) ==
    [i \in 1..Len(ObjectKeys(e.ResourceProperties.Tags)) |->
        [Key |-> ObjectKeys(e.ResourceProperties.Tags)[i],
         Value |-> e.ResourceProperties.Tags[ObjectKeys(e.ResourceProperties.Tags)[i]]]]

\* the Tags of TagSpecifications (CreateKeyPair / ImportKeyPair) and of
\* CreateSecret
CreationTags(e) == makeTags(e, e.ResourceProperties.Tags)

\* NoPrivateKeySecret without the early return for imported keys
NoPrivateKeySecret_Never(p) == FALSE

\* createPrivateKeySecret: an imported key has no private key to store
NoPrivateKeySecret(p) == Len(p.PublicKey) > 0

\* PrivateKeySecretString storing the fingerprint instead of the key material
PrivateKeySecretString_Fingerprint(kp) == kp.KeyFingerprint

\* createPrivateKeySecret: the SecretString of the private secret
PrivateKeySecretString(kp) == kp.KeyMaterial

\* StoresPublicKey without the check of StorePublicKey
StoresPublicKey_Always(p) == TRUE

\* createPublicKeySecret: the public key is stored only when asked for
StoresPublicKey(p) == p.StorePublicKey = "true"

\* the attribute name under which createKeyPair returns the fingerprint
ImportFingerprintAttr == "KeyFingerprint"
CreateFingerprintAttr == "KeyPairFingerprint"

\* createKeyPair: ImportKeyPair when a public key is given, else CreateKeyPair
createKeyPair ==
    /\ pc = "createKeyPair"
    /\ LET p == event.ResourceProperties
           tagList == CreationTags(event)
           imported == ImportsPublicKey(p)
           material == IF imported THEN Undefined
                       ELSE NewKeyMaterial(p.KeyType, nEvents)
           fingerprint == Fingerprint(IF imported THEN p.PublicKey ELSE material)
           id == NewKeyPairId(p.Name, nEvents)
       IN  \E answer \in CreateKeyPairAnswers(p.Name, tagList) :
             /\ calls' = Append(calls,
                   [Call(IF imported THEN "ImportKeyPair" ELSE "CreateKeyPair",
                         p.Name, answer) EXCEPT !.Tags = tagList])
             /\ IF answer = Ok
                THEN /\ keyPairs' = [keyPairs EXCEPT ![p.Name] =
                            NewKeyPairRecord(p.Name, id, fingerprint, tagList, nEvents)]
                     /\ keyPair' = [KeyName |-> p.Name, KeyPairId |-> id,
                                    KeyFingerprint |-> fingerprint,
                                    KeyMaterial |-> material]
                     /\ response' =
                          addResponseValue(
                            addResponseValue(
                              addResponseValue(response, "KeyPairName", p.Name),
                              "KeyPairID", id),
                            IF imported THEN ImportFingerprintAttr
                            ELSE CreateFingerprintAttr, fingerprint)
                     /\ Goto("createPrivateKeySecret")
                ELSE /\ Throw(answer)
                     /\ UNCHANGED <<keyPairs, keyPair, response>>
    /\ UNCHANGED <<slice, secrets, cfn, event, atStart, nEvents, nOutOfBand>>

\* createPrivateKeySecret: nothing to store for an imported key, else CreateSecret
\* with the key material
createPrivateKeySecret ==
    /\ pc = "createPrivateKeySecret"
    /\ LET p == event.ResourceProperties
           id == PrivateSecretId(p)
           tagList == CreationTags(event)
       IN  IF NoPrivateKeySecret(p)
           THEN /\ response' = addResponseValue(response, "PrivateKeyARN", "")
                /\ Goto("createPublicKeySecret")
                /\ UNCHANGED <<secrets, calls>>
           ELSE \E answer \in CreateSecretAnswers(id, tagList) :
                  /\ calls' = Append(calls,
                        [Call("CreateSecret", id, answer) EXCEPT
                            !.Tags = tagList,
                            !.SecretString = PrivateKeySecretString(keyPair),
                            !.Description = p.Description \o " (Private Key)",
                            !.KmsKeyId = p.KmsPrivate])
                  /\ IF answer = Ok
                     THEN /\ secrets' = [secrets EXCEPT ![id] =
                                 NewSecretRecord(id, PrivateKeySecretString(keyPair),
                                     p.Description \o " (Private Key)",
                                     p.KmsPrivate, tagList, nEvents)]
                          /\ response' =
                               addResponseValue(response, "PrivateKeyARN", Arn(id))
                          /\ Goto("createPublicKeySecret")
                     ELSE /\ Throw(answer)
                          /\ UNCHANGED <<secrets, response>>
    /\ UNCHANGED <<slice, keyPairs, cfn, event, keyPair, atStart, nEvents, nOutOfBand>>

\* PublicSecretString always writing the OpenSSH format
PublicSecretString_Openssh(p, kp) ==
    IF Len(p.PublicKey) > 0 THEN p.PublicKey
    ELSE PublicKeyString(kp.KeyMaterial, p.Name, "openssh")

\* createPublicKeySecret: the public key that is stored, the given one for an
\* imported key pair and else the one made from the key material
PublicSecretString(p, kp) ==
    IF Len(p.PublicKey) > 0 THEN p.PublicKey
    ELSE PublicKeyString(kp.KeyMaterial, p.Name, p.PublicKeyFormat)

\* createPublicKeySecret: the public key is derived first (imported: taken as
\* given), then stored when StorePublicKey is 'true'
createPublicKeySecret ==
    /\ pc = "createPublicKeySecret"
    /\ LET p == event.ResourceProperties
           id == PublicSecretId(p)
           tagList == CreationTags(event)
           imported == Len(p.PublicKey) > 0
           publicKey == PublicSecretString(p, keyPair)
       IN  IF ~imported /\ ~CanEncode(keyPair.KeyMaterial, p.PublicKeyFormat)
           THEN /\ Throw("UnsupportedFormat")
                /\ UNCHANGED <<secrets, calls, response>>
           ELSE IF ~StoresPublicKey(p)
           THEN /\ Goto("exposePublicKey")
                /\ UNCHANGED <<secrets, calls, response>>
           ELSE \E answer \in CreateSecretAnswers(id, tagList) :
                  /\ calls' = Append(calls,
                        [Call("CreateSecret", id, answer) EXCEPT
                            !.Tags = tagList,
                            !.SecretString = publicKey,
                            !.Description = p.Description \o " (Public Key)",
                            !.KmsKeyId = p.KmsPublic])
                  /\ IF answer = Ok
                     THEN /\ secrets' = [secrets EXCEPT ![id] =
                                 NewSecretRecord(id, publicKey,
                                     p.Description \o " (Public Key)",
                                     p.KmsPublic, tagList, nEvents)]
                          /\ response' =
                               addResponseValue(response, "PublicKeyARN", Arn(id))
                          /\ Goto("exposePublicKey")
                     ELSE /\ Throw(answer)
                          /\ UNCHANGED <<secrets, response>>
    /\ UNCHANGED <<slice, keyPairs, cfn, event, keyPair, atStart, nEvents, nOutOfBand>>

NotRequested == "Not requested - Set ExposePublicKey to true"

ExposesPublicKey_WhenStored(p) == p.StorePublicKey = "true"

\* ExposedText encoding every format
ExposedText_Base64Always(p, k) == Base64(k)

\* exposePublicKey: CloudFormation cannot carry binary data, so the rfc4253
\* output is base64-encoded
ExposedText(p, k) == IF p.PublicKeyFormat = RFC4253 THEN Base64(k) ELSE k

\* KeyMaterialKnown taking no key pair to carry its key material
KeyMaterialKnown_Never(kp) == FALSE

\* makePublicKey: the key material of the key pair is used when it carries
\* one (the output of CreateKeyPair); getPrivateKey is awaited only otherwise
KeyMaterialKnown(kp) == kp.KeyMaterial # Undefined

\* resource.properties.ExposePublicKey?.value == 'true'
ExposesPublicKey(p) == p.ExposePublicKey = "true"

\* exposePublicKey (the last step of Create and of Update): PublicKeyValue is the
\* public key when ExposePublicKey is 'true', else the placeholder. makePublicKey
\* reads the private key with GetSecretValue when the key pair carries no
\* KeyMaterial.
exposePublicKey ==
    /\ pc = "exposePublicKey"
    /\ LET p == event.ResourceProperties
           imported == Len(p.PublicKey) > 0
           encode(k) == ExposedText(p, k)
       IN  IF ~ExposesPublicKey(p)
           THEN /\ response' = addResponseValue(response, "PublicKeyValue", NotRequested)
                /\ Resolve
                /\ UNCHANGED calls
           ELSE IF imported
           THEN /\ response' =
                     addResponseValue(response, "PublicKeyValue", encode(p.PublicKey))
                /\ Resolve
                /\ UNCHANGED calls
           ELSE IF KeyMaterialKnown(keyPair)
           THEN /\ UNCHANGED calls
                /\ IF CanEncode(keyPair.KeyMaterial, p.PublicKeyFormat)
                   THEN /\ response' = addResponseValue(response, "PublicKeyValue",
                               encode(PublicKeyString(keyPair.KeyMaterial, p.Name,
                                                      p.PublicKeyFormat)))
                        /\ Resolve
                   ELSE /\ Throw("UnsupportedFormat")
                        /\ UNCHANGED response
           ELSE \E answer \in SecretAnswers(PrivateSecretId(p)) :
                  LET id == PrivateSecretId(p)
                      keyMaterial == secrets[id].SecretString
                  IN  /\ calls' = Append(calls, Call("GetSecretValue", id, answer))
                      /\ IF answer # Ok
                         THEN /\ Throw(answer)
                              /\ UNCHANGED response
                         ELSE IF CanEncode(keyMaterial, p.PublicKeyFormat)
                         THEN /\ response' =
                                   addResponseValue(response, "PublicKeyValue",
                                     encode(PublicKeyString(keyMaterial, p.Name,
                                                            p.PublicKeyFormat)))
                              /\ Resolve
                         ELSE /\ Throw("UnsupportedFormat")
                              /\ UNCHANGED response
    /\ UNCHANGED <<slice, keyPairs, secrets, cfn, event, keyPair, atStart, nEvents, nOutOfBand>>

createResource ==
    \/ createKeyPair
    \/ createPrivateKeySecret
    \/ createPublicKeySecret
    \/ exposePublicKey

-----------------------------------------------------------------------------
(* Update *)

\* UpdateEntry dispatching an Update to createResource
UpdateEntry_CreateResource == "createKeyPair"

\* the function the CustomResource runs for an Update event
UpdateEntry == "updateResource"

\* handler: an Update event is dispatched to updateResource
ReceiveUpdate ==
    /\ pc = "idle"
    /\ cfn.status = "created"
    /\ nEvents < MaxEvents
    /\ \E p \in Universe(slice) :
          event' = [RequestType |-> "Update", ResourceProperties |-> p,
                    OldResourceProperties |-> cfn.props, StackId |-> StackId,
                    LogicalResourceId |-> LogicalResourceId]
    /\ pc' = UpdateEntry
    /\ calls' = <<>>
    /\ atStart' = [keyPairs |-> keyPairs, secrets |-> secrets]
    /\ response' = NoResponse
    /\ keyPair' = NoResult
    /\ outcome' = "none"
    /\ error' = ""
    /\ nEvents' = nEvents + 1
    /\ UNCHANGED <<slice, keyPairs, secrets, cfn, nOutOfBand>>

RenamedError == "A Key Pair cannot be renamed. Please create a new Key Pair instead"
StoreChangedError == "Once created, a key cannot be modified or accessed. Therefore the public key can only be stored, when the key is created."
PublicKeyChangedError == "You cannot change the public key of an exiting key pair. Please delete the key pair and create a new one."
KeyTypeChangedError == "The type of a key pair cannot be changed. Please create a new key pair instead"

\* ImmutabilityError without the StorePublicKey check
ImmutabilityError_NoStoreCheck(e) ==
    IF Changed(e, "Name") THEN RenamedError
    ELSE IF Changed(e, "PublicKey") THEN PublicKeyChangedError
    ELSE LET oldKeyType == Coalesce(e.OldResourceProperties.KeyType, "rsa")
         IN  IF e.ResourceProperties.KeyType # oldKeyType
             THEN KeyTypeChangedError
             ELSE ""

\* ImmutabilityError without the PublicKey check
ImmutabilityError_NoPublicKeyCheck(e) ==
    IF Changed(e, "Name") THEN RenamedError
    ELSE IF Changed(e, "StorePublicKey") THEN StoreChangedError
    ELSE LET oldKeyType == Coalesce(e.OldResourceProperties.KeyType, "rsa")
         IN  IF e.ResourceProperties.KeyType # oldKeyType
             THEN KeyTypeChangedError
             ELSE ""

\* the checks at the head of updateResource: the error the Update is rejected
\* with, "" when it passes
ImmutabilityError(e) ==
    IF Changed(e, "Name") THEN RenamedError
    ELSE IF Changed(e, "StorePublicKey") THEN StoreChangedError
    ELSE IF Changed(e, "PublicKey") THEN PublicKeyChangedError
    ELSE LET oldKeyType == Coalesce(e.OldResourceProperties.KeyType, "rsa")
         IN  IF e.ResourceProperties.KeyType # oldKeyType
             THEN KeyTypeChangedError
             ELSE ""

\* updateResource, up to its first await
updateResource ==
    /\ pc = "updateResource"
    /\ IF ImmutabilityError(event) # ""
       THEN Throw(ImmutabilityError(event))
       ELSE Goto("updateKeyPair")
    /\ UNCHANGED <<slice, keyPairs, secrets, cfn, event, keyPair, response, calls,
                   atStart, nEvents, nOutOfBand>>

\* updateKeyPairFinds going on with an empty list
updateKeyPairFinds_EmptyToo(described) == described \in {Ok, "empty"}

\* updateKeyPair: the described list has exactly one key pair
updateKeyPairFinds(described) == described = Ok

\* result.KeyPairs[0]
FirstKeyPair(name) ==
    IF keyPairs[name].exists THEN keyPairs[name]
    ELSE [KeyName |-> Undefined, KeyPairId |-> Undefined,
          KeyFingerprint |-> Undefined]

KeyPairNotFoundError == "Key pair was not found"

\* updateKeyPair: DescribeKeyPairs, to learn the key pair's id
updateKeyPair ==
    /\ pc = "updateKeyPair"
    /\ LET p == event.ResourceProperties
           kp == FirstKeyPair(p.Name)
       IN  \E answer \in DescribeKeyPairsAnswers(p.Name) :
                 /\ calls' = Append(calls, Call("DescribeKeyPairs", p.Name, answer))
                 /\ IF updateKeyPairFinds(answer)
                    THEN /\ keyPair' = [KeyName |-> kp.KeyName,
                                        KeyPairId |-> kp.KeyPairId,
                                        KeyFingerprint |-> kp.KeyFingerprint,
                                        KeyMaterial |-> Undefined]
                         /\ response' =
                              addResponseValue(
                                addResponseValue(
                                  addResponseValue(response, "KeyPairName", kp.KeyName),
                                  "KeyPairID", kp.KeyPairId),
                                "KeyPairFingerprint", kp.KeyFingerprint)
                         /\ Goto("updateKeyPairAddTags")
                    ELSE /\ Throw(IF answer = "empty" THEN KeyPairNotFoundError
                                  ELSE answer)
                         /\ UNCHANGED <<keyPair, response>>
    /\ UNCHANGED <<slice, keyPairs, secrets, cfn, event, atStart, nEvents, nOutOfBand>>

\* the name of the key pair with the given id
KeyNameOfId(id) ==
    CHOOSE n \in Names : keyPairs[n].exists /\ keyPairs[n].KeyPairId = id
IdKnown(id) == \E n \in Names : keyPairs[n].exists /\ keyPairs[n].KeyPairId = id

\* the answers of EC2 to CreateTags on a key pair id: the role may tag when the
\* request or the resource carries the ownership tag
CreateTagsAnswers(id, tagList) ==
    {ServiceError,
     IF ~IdKnown(id) THEN "InvalidKeyPairID.NotFound"
     ELSE IF ~(AllowedByRequestTag(tagList)
               \/ AllowedByResourceTag(keyPairs[KeyNameOfId(id)].tags))
          THEN AccessDenied
     ELSE Ok}

\* the answers of EC2 to DeleteTags on a key pair id
DeleteTagsAnswers(id) ==
    {ServiceError,
     IF ~IdKnown(id) THEN "InvalidKeyPairID.NotFound"
     ELSE IF ~AllowedByResourceTag(keyPairs[KeyNameOfId(id)].tags) THEN AccessDenied
     ELSE Ok}

\* TagsChanged without the comparison
TagsChanged_Always(e) == TRUE

\* TagsChanged comparing the key sets only
TagsChanged_KeysOnly(e) ==
    e.RequestType = "Update"
    /\ DOMAIN e.ResourceProperties.Tags # DOMAIN e.OldResourceProperties.Tags

\* resource.properties.Tags.changed, the guard of the four tag steps
TagsChanged(e) == Changed(e, "Tags")

\* updateKeyPairAddTags: CreateTags with the new tag list, when the tags changed
updateKeyPairAddTags ==
    /\ pc = "updateKeyPairAddTags"
    /\ LET p == event.ResourceProperties
           id == keyPair.KeyPairId
           tagList == makeTags(event, p.Tags)
       IN  IF ~TagsChanged(event)
           THEN /\ Goto("updateKeyPairRemoveTags")
                /\ UNCHANGED <<keyPairs, calls>>
           ELSE \E answer \in CreateTagsAnswers(id, tagList) :
                      /\ calls' = Append(calls,
                            [Call("CreateTags", id, answer) EXCEPT !.Tags = tagList])
                      /\ IF answer = Ok
                         THEN /\ keyPairs' =
                                   [keyPairs EXCEPT ![KeyNameOfId(id)].tags =
                                       ApplyTags(@, tagList)]
                              /\ Goto("updateKeyPairRemoveTags")
                         ELSE /\ Throw(answer)
                              /\ UNCHANGED keyPairs
    /\ UNCHANGED <<slice, secrets, cfn, event, keyPair, response, atStart, nEvents, nOutOfBand>>

\* AfterKeyPairTags going to the private secret of an imported key too
AfterKeyPairTags_AlwaysPrivate(p) == "updatePrivateKeySecret"

\* AfterKeyPairTags going to the public secret first
AfterKeyPairTags_PublicFirst(p) ==
    IF p.StorePublicKey = "true" THEN "updatePublicKeySecret"
    ELSE IF Len(p.PublicKey) = 0 THEN "updatePrivateKeySecret"
    ELSE "exposePublicKey"

\* where updateResource goes after the key pair's tags: the private secret
\* unless the key was imported, the public secret if it is stored, the public key
AfterKeyPairTags(p) ==
    IF Len(p.PublicKey) = 0 THEN "updatePrivateKeySecret"
    ELSE IF p.StorePublicKey = "true" THEN "updatePublicKeySecret"
    ELSE "exposePublicKey"
AfterPrivateSecret(p) ==
    IF p.StorePublicKey = "true" THEN "updatePublicKeySecret"
    ELSE "exposePublicKey"

\* tagsToRemove naming every key of the old Tags
tagsToRemove_AllOldKeys(e) == ObjectKeys(e.OldResourceProperties.Tags)

\* the tag keys an Update removes: those of the old list no entry of the new
\* list carries
tagsToRemove(e) ==
    getMissingTags(makeTags(e, e.OldResourceProperties.Tags),
                   makeTags(e, e.ResourceProperties.Tags))

\* updateKeyPairRemoveTags: DeleteTags for the keys the new tags no longer carry
updateKeyPairRemoveTags ==
    /\ pc = "updateKeyPairRemoveTags"
    /\ LET p == event.ResourceProperties
           id == keyPair.KeyPairId
       IN  IF ~TagsChanged(event)
           THEN /\ Goto(AfterKeyPairTags(p))
                /\ UNCHANGED <<keyPairs, calls>>
           ELSE IF Len(tagsToRemove(event)) = 0
           THEN /\ Goto(AfterKeyPairTags(p))
                /\ UNCHANGED <<keyPairs, calls>>
           ELSE \E answer \in DeleteTagsAnswers(id) :
                  LET keys == tagsToRemove(event)
                      tagList == [i \in 1..Len(keys) |->
                                    [Key |-> keys[i],
                                     Value |-> event.OldResourceProperties.Tags[keys[i]]]]
                  IN  /\ calls' = Append(calls,
                            [Call("DeleteTags", id, answer) EXCEPT
                                !.Tags = tagList, !.TagKeys = keys])
                      /\ IF answer = Ok
                         THEN /\ keyPairs' =
                                   [keyPairs EXCEPT ![KeyNameOfId(id)].tags =
                                       Ec2RemoveTags(@, tagList)]
                              /\ Goto(AfterKeyPairTags(p))
                         ELSE /\ Throw(answer)
                              /\ UNCHANGED keyPairs
    /\ UNCHANGED <<slice, secrets, cfn, event, keyPair, response, atStart, nEvents, nOutOfBand>>

\* updateSecretParams sending the description as the secret's value too
updateSecretParams_WithValue(description, kmsKeyId) ==
    [Description |-> description, KmsKeyId |-> kmsKeyId,
     SecretString |-> description]

\* the UpdateSecretCommandInput of updatePrivateKeySecret and
\* updatePublicKeySecret: SecretId, Description and KmsKeyId, no SecretString
updateSecretParams(description, kmsKeyId) ==
    [Description |-> description, KmsKeyId |-> kmsKeyId,
     SecretString |-> Undefined]

\* UpdateSecret: the description and the key are replaced, the value only when
\* the request carries one
SmUpdateSecret(s, params) ==
    [s EXCEPT !.Description = params.Description,
              !.KmsKeyId = params.KmsKeyId,
              !.SecretString = IF params.SecretString = Undefined THEN @
                               ELSE params.SecretString]

\* updatePrivateKeySecret: UpdateSecret with the description and the KMS key
updatePrivateKeySecret ==
    /\ pc = "updatePrivateKeySecret"
    /\ LET p == event.ResourceProperties
           id == PrivateSecretId(p)
           params == updateSecretParams(p.Description \o " (Private key)",
                                        p.KmsPrivate)
       IN  \E answer \in SecretAnswers(id) :
             /\ calls' = Append(calls,
                   [Call("UpdateSecret", id, answer) EXCEPT
                       !.Description = params.Description,
                       !.KmsKeyId = params.KmsKeyId,
                       !.SecretString = params.SecretString])
             /\ IF answer = Ok
                THEN /\ secrets' = [secrets EXCEPT
                            ![id] = SmUpdateSecret(@, params)]
                     /\ response' =
                          addResponseValue(response, "PrivateKeyARN", secrets[id].ARN)
                     /\ Goto("updateSecretAddTags/private")
                ELSE /\ Throw(answer)
                     /\ UNCHANGED <<secrets, response>>
    /\ UNCHANGED <<slice, keyPairs, cfn, event, keyPair, atStart, nEvents, nOutOfBand>>

\* updatePublicKeySecret: UpdateSecret when secretExists says the secret is there
updatePublicKeySecret ==
    /\ pc = "updatePublicKeySecret"
    /\ LET p == event.ResourceProperties
           arn == PublicSecretId(p)
           params == updateSecretParams(p.Description \o " (Public Key)",
                                        p.KmsPublic)
       IN  \E listed \in ListSecretsAnswers(arn) :
             LET list == Call("ListSecrets", arn, listed)
             IN  IF secretExists(listed) = "throw"
                 THEN /\ calls' = Append(calls, list)
                      /\ Throw(listed)
                      /\ UNCHANGED <<secrets, response>>
                 ELSE IF secretExists(listed) = "false"
                 THEN /\ calls' = Append(calls, list)
                      /\ Goto("updateSecretAddTags/public")
                      /\ UNCHANGED <<secrets, response>>
                 ELSE \E answer \in SecretAnswers(arn) :
                      /\ calls' = Append(Append(calls, list),
                            [Call("UpdateSecret", arn, answer) EXCEPT
                                !.Description = params.Description,
                                !.KmsKeyId = params.KmsKeyId,
                                !.SecretString = params.SecretString])
                      /\ IF answer = Ok
                         THEN /\ secrets' = [secrets EXCEPT
                                     ![arn] = SmUpdateSecret(@, params)]
                              /\ response' = addResponseValue(response, "PublicKeyARN",
                                                              secrets[arn].ARN)
                              /\ Goto("updateSecretAddTags/public")
                         ELSE /\ Throw(answer)
                              /\ UNCHANGED <<secrets, response>>
    /\ UNCHANGED <<slice, keyPairs, cfn, event, keyPair, atStart, nEvents, nOutOfBand>>

SecretKinds == {"private", "public"}
SecretIdOf(p, kind) ==
    IF kind = "private" THEN PrivateSecretId(p) ELSE PublicSecretId(p)
AfterSecretTags(p, kind) ==
    IF kind = "private" THEN AfterPrivateSecret(p) ELSE "exposePublicKey"

\* updateSecretAddTags: TagResource with the new tag list, when the tags changed
updateSecretAddTags(kind) ==
    /\ pc = "updateSecretAddTags/" \o kind
    /\ LET p == event.ResourceProperties
           secretId == SecretIdOf(p, kind)
           tagList == makeTags(event, p.Tags)
       IN  IF ~TagsChanged(event)
           THEN /\ Goto("updateSecretRemoveTags/" \o kind)
                /\ UNCHANGED <<secrets, calls>>
           ELSE \E answer \in TagResourceAnswers(secretId, tagList) :
                      /\ calls' = Append(calls,
                            [Call("TagResource", secretId, answer) EXCEPT
                                !.Tags = tagList])
                      /\ IF answer = Ok
                         THEN /\ secrets' = [secrets EXCEPT ![secretId].tags =
                                                ApplyTags(@, tagList)]
                              /\ Goto("updateSecretRemoveTags/" \o kind)
                         ELSE /\ Throw(answer)
                              /\ UNCHANGED secrets
    /\ UNCHANGED <<slice, keyPairs, cfn, event, keyPair, response, atStart, nEvents, nOutOfBand>>

\* updateSecretRemoveTags: UntagResource for the keys the new tags no longer carry
updateSecretRemoveTags(kind) ==
    /\ pc = "updateSecretRemoveTags/" \o kind
    /\ LET p == event.ResourceProperties
           secretId == SecretIdOf(p, kind)
       IN  IF ~TagsChanged(event)
           THEN /\ Goto(AfterSecretTags(p, kind))
                /\ UNCHANGED <<secrets, calls>>
           ELSE IF Len(tagsToRemove(event)) = 0
           THEN /\ Goto(AfterSecretTags(p, kind))
                /\ UNCHANGED <<secrets, calls>>
           ELSE \E answer \in SecretAnswers(secretId) :
                  LET keys == tagsToRemove(event)
                  IN  /\ calls' = Append(calls,
                            [Call("UntagResource", secretId, answer) EXCEPT
                                !.TagKeys = keys])
                      /\ IF answer = Ok
                         THEN /\ secrets' = [secrets EXCEPT ![secretId].tags =
                                                SmRemoveTags(@, keys)]
                              /\ Goto(AfterSecretTags(p, kind))
                         ELSE /\ Throw(answer)
                              /\ UNCHANGED secrets
    /\ UNCHANGED <<slice, keyPairs, cfn, event, keyPair, response, atStart, nEvents, nOutOfBand>>

-----------------------------------------------------------------------------
(* Delete *)

\* handler: a Delete event is dispatched to deleteResource
ReceiveDelete ==
    /\ pc = "idle"
    /\ cfn.status \in {"created", "create_failed"}
    /\ nEvents < MaxEvents
    /\ event' = [RequestType |-> "Delete", ResourceProperties |-> cfn.props,
                 OldResourceProperties |-> NoProps, StackId |-> StackId,
                 LogicalResourceId |-> LogicalResourceId]
    /\ pc' = "deleteKeyPair"
    /\ calls' = <<>>
    /\ atStart' = [keyPairs |-> keyPairs, secrets |-> secrets]
    /\ response' = NoResponse
    /\ keyPair' = NoResult
    /\ outcome' = "none"
    /\ error' = ""
    /\ nEvents' = nEvents + 1
    /\ UNCHANGED <<slice, keyPairs, secrets, cfn, nOutOfBand>>

\* the answers of EC2 to DeleteKeyPair
DeleteKeyPairAnswers(name) ==
    {ServiceError,
     IF keyPairs[name].exists /\ ~AllowedByResourceTag(keyPairs[name].tags)
     THEN AccessDenied
     ELSE Ok}

\* deleteKeyPair: DeleteKeyPair when keyPairExists says the key pair is there
deleteKeyPair ==
    /\ pc = "deleteKeyPair"
    /\ LET keyPairName == event.ResourceProperties.Name
       IN  \E described \in DescribeKeyPairsAnswers(keyPairName) :
             LET describe == Call("DescribeKeyPairs", keyPairName, described)
             IN  IF keyPairExists(described) = "false"
                 THEN /\ calls' = Append(calls, describe)
                      /\ Goto("deletePrivateKeySecret")
                      /\ UNCHANGED keyPairs
                 ELSE IF keyPairExists(described) = "throw"
                 THEN /\ calls' = Append(calls, describe)
                      /\ Throw(described)
                      /\ UNCHANGED keyPairs
                 ELSE \E answer \in DeleteKeyPairAnswers(keyPairName) :
                      /\ calls' = Append(Append(calls, describe),
                                         Call("DeleteKeyPair", keyPairName, answer))
                      /\ IF answer = Ok
                         THEN /\ keyPairs' = [keyPairs EXCEPT ![keyPairName] = NoKeyPair]
                              /\ Goto("deletePrivateKeySecret")
                         ELSE /\ Throw(answer)
                              /\ UNCHANGED keyPairs
    /\ UNCHANGED <<slice, secrets, cfn, event, keyPair, response, atStart, nEvents, nOutOfBand>>

\* deleteSecretParams forcing the deletion whatever the recovery window
deleteSecretParams_AlwaysForced(e, secretId, answer) ==
    LET days == e.ResourceProperties.RemoveKeySecretsAfterDays
        withWindow == ~IsNaN(days) /\ parseInt(days) > 0
    IN  [Call("DeleteSecret", secretId, answer) EXCEPT
            !.RecoveryWindowInDays = IF withWindow THEN parseInt(days) ELSE 0,
            !.ForceDeleteWithoutRecovery = TRUE]

\* deleteSecret: the DeleteSecret request, with a recovery window when
\* RemoveKeySecretsAfterDays parses to a number above 0, forced otherwise
deleteSecretParams(e, secretId, answer) ==
    LET days == e.ResourceProperties.RemoveKeySecretsAfterDays
        withWindow == ~IsNaN(days) /\ parseInt(days) > 0
    IN  [Call("DeleteSecret", secretId, answer) EXCEPT
            !.RecoveryWindowInDays = IF withWindow THEN parseInt(days) ELSE 0,
            !.ForceDeleteWithoutRecovery = ~withWindow]

\* what Secrets Manager holds after DeleteSecret: nothing when forced, the
\* secret scheduled for deletion when a recovery window was given
AfterDeleteSecret(secret, params) ==
    IF params.ForceDeleteWithoutRecovery THEN NoSecret
    ELSE [secret EXCEPT !.deleted = TRUE]

\* deletePrivateKeySecret / deletePublicKeySecret: DeleteSecret when secretExists
\* says the secret is there; the ARN of the deleted secret is returned
deleteKeySecret(arn, attr) ==
    \E listed \in ListSecretsAnswers(arn) :
      LET list == Call("ListSecrets", arn, listed)
      IN  IF secretExists(listed) = "false"
          THEN /\ calls' = Append(calls, list)
               /\ UNCHANGED <<secrets, response>>
               /\ IF attr = "PrivateKeyARN"
                  THEN Goto("deletePublicKeySecret") ELSE Resolve
          ELSE IF secretExists(listed) = "throw"
          THEN /\ calls' = Append(calls, list)
               /\ Throw(listed)
               /\ UNCHANGED <<secrets, response>>
          ELSE \E answer \in SecretAnswers(arn) :
               LET params == deleteSecretParams(event, arn, answer)
               IN  /\ calls' = Append(Append(calls, list), params)
                   /\ IF answer = Ok
                      THEN /\ secrets' = [secrets EXCEPT ![arn] =
                                             AfterDeleteSecret(@, params)]
                           /\ response' = addResponseValue(response, attr,
                                                           secrets[arn].ARN)
                           /\ IF attr = "PrivateKeyARN"
                              THEN Goto("deletePublicKeySecret") ELSE Resolve
                      ELSE /\ Throw(answer)
                           /\ UNCHANGED <<secrets, response>>

deletePrivateKeySecret ==
    /\ pc = "deletePrivateKeySecret"
    /\ deleteKeySecret(PrivateSecretId(event.ResourceProperties), "PrivateKeyARN")
    /\ UNCHANGED <<slice, keyPairs, cfn, event, keyPair, atStart, nEvents, nOutOfBand>>

deletePublicKeySecret ==
    /\ pc = "deletePublicKeySecret"
    /\ deleteKeySecret(PublicSecretId(event.ResourceProperties), "PublicKeyARN")
    /\ UNCHANGED <<slice, keyPairs, cfn, event, keyPair, atStart, nEvents, nOutOfBand>>

deleteResource ==
    \/ deleteKeyPair
    \/ deletePrivateKeySecret
    \/ deletePublicKeySecret

-----------------------------------------------------------------------------
(* Changes made outside the function *)

\* an operator removes the key pair or one of the secrets of the resource by hand
OperatorRemoves ==
    /\ pc = "idle"
    /\ cfn.status = "created"
    /\ nOutOfBand < MaxOutOfBand
    /\ \/ /\ keyPairs[cfn.props.Name].exists
          /\ keyPairs' = [keyPairs EXCEPT ![cfn.props.Name] = NoKeyPair]
          /\ UNCHANGED secrets
       \/ \E id \in {PrivateSecretId(cfn.props), PublicSecretId(cfn.props)} :
            /\ secrets[id].exists
            /\ secrets' = [secrets EXCEPT ![id] = NoSecret]
            /\ UNCHANGED keyPairs
    /\ nOutOfBand' = nOutOfBand + 1
    /\ UNCHANGED <<slice, cfn, event, pc, keyPair, response, outcome, error,
                   calls, atStart, nEvents>>

-----------------------------------------------------------------------------
(* Initial states *)

\* resources of the same names that exist before the stack is deployed: made by
\* someone else, they do not carry the ownership tag
Foreign == -1
ForeignKinds == {"keypair", "private", "public"}
ForeignKeyPairs(F) ==
    [n \in Names |->
        IF n = BaseProps.Name /\ "keypair" \in F
        THEN NewKeyPairRecord(n, "key-foreign", "fp(foreign)", <<>>, Foreign)
        ELSE NoKeyPair]
ForeignSecrets(F) ==
    [id \in SecretIds |->
        IF \/ id = PrivateSecretId(BaseProps) /\ "private" \in F
           \/ id = PublicSecretId(BaseProps) /\ "public" \in F
        THEN NewSecretRecord(id, "foreign value", "", DefaultKms, <<>>, Foreign)
        ELSE NoSecret]

\* a resource created by a release of the function that knew no key types: its
\* properties carry no KeyType, its key is an RSA key
Legacy == 0
LegacyProps == {p \in Universe("immutable") : p.KeyType = Undefined}
LegacyEvent(p) ==
    [RequestType |-> "Create", ResourceProperties |-> p,
     OldResourceProperties |-> NoProps, StackId |-> StackId,
     LogicalResourceId |-> LogicalResourceId]
LegacyMaterial == NewKeyMaterial("rsa", Legacy)
LegacyKeyPairs(p) ==
    [n \in Names |->
        IF n = p.Name
        THEN NewKeyPairRecord(n, NewKeyPairId(n, Legacy),
                 Fingerprint(IF Len(p.PublicKey) > 0 THEN p.PublicKey
                             ELSE LegacyMaterial),
                 makeTags(LegacyEvent(p), p.Tags), Legacy)
        ELSE NoKeyPair]
LegacySecrets(p) ==
    [id \in SecretIds |->
        IF id = PrivateSecretId(p) /\ Len(p.PublicKey) = 0
        THEN NewSecretRecord(id, LegacyMaterial, p.Description \o " (Private Key)",
                 p.KmsPrivate, makeTags(LegacyEvent(p), p.Tags), Legacy)
        ELSE IF id = PublicSecretId(p) /\ p.StorePublicKey = "true"
        THEN NewSecretRecord(id,
                 IF Len(p.PublicKey) > 0 THEN p.PublicKey
                 ELSE PublicKeyString(LegacyMaterial, p.Name, "openssh"),
                 p.Description \o " (Public Key)", p.KmsPublic,
                 makeTags(LegacyEvent(p), p.Tags), Legacy)
        ELSE NoSecret]

Init ==
    /\ slice \in Slices
    /\ \/ /\ keyPairs = [n \in Names |-> NoKeyPair]
          /\ secrets = [id \in SecretIds |-> NoSecret]
          /\ cfn = [status |-> "none", props |-> NoProps]
       \/ /\ slice = "preexisting"
          /\ \E F \in (SUBSET ForeignKinds) \ {{}} :
                /\ keyPairs = ForeignKeyPairs(F)
                /\ secrets = ForeignSecrets(F)
          /\ cfn = [status |-> "none", props |-> NoProps]
       \/ /\ slice = "immutable"
          /\ \E p \in LegacyProps :
                /\ keyPairs = LegacyKeyPairs(p)
                /\ secrets = LegacySecrets(p)
                /\ cfn = [status |-> "created", props |-> p]
    /\ event = NoEvent
    /\ pc = "idle"
    /\ keyPair = NoResult
    /\ response = NoResponse
    /\ outcome = "none"
    /\ error = ""
    /\ calls = <<>>
    /\ atStart = NoSnapshot
    /\ nEvents = 0
    /\ nOutOfBand = 0

Next ==
    \/ Respond
    \/ ReceiveCreate
    \/ createResource
    \/ ReceiveUpdate
    \/ updateResource
    \/ updateKeyPair
    \/ updateKeyPairAddTags
    \/ updateKeyPairRemoveTags
    \/ updatePrivateKeySecret
    \/ updatePublicKeySecret
    \/ \E kind \in SecretKinds : updateSecretAddTags(kind)
    \/ \E kind \in SecretKinds : updateSecretRemoveTags(kind)
    \/ ReceiveDelete
    \/ deleteResource
    \/ OperatorRemoves

Spec == Init /\ [][Next]_vars

\* the steps of the handler between the receipt of an event and its response
HandlerStep ==
    \/ createResource
    \/ updateResource
    \/ updateKeyPair
    \/ updateKeyPairAddTags
    \/ updateKeyPairRemoveTags
    \/ updatePrivateKeySecret
    \/ updatePublicKeySecret
    \/ \E kind \in SecretKinds : updateSecretAddTags(kind)
    \/ \E kind \in SecretKinds : updateSecretRemoveTags(kind)
    \/ deleteResource

\* the runtime runs an invoked handler on: every awaited call returns or raises,
\* and the function then goes on to its next statement
FairSpec == Spec /\ WF_vars(HandlerStep)

-----------------------------------------------------------------------------
(* The Update handler of the earlier, promise-executor release *)

\* the tags of its events: none of the user's, or one
PromiseTagMaps ==
    {RenderTags(u) : u \in {um \in UserTagMaps : DOMAIN um \subseteq {"env"}}}

\* that release knew no key types: its properties carry no KeyType
PromiseProps ==
    {[BaseProps EXCEPT !.KeyType = Undefined, !.Name = n, !.PublicKey = pk,
                       !.StorePublicKey = st, !.ExposePublicKey = ex,
                       !.Tags = t] :
        n \in Names, pk \in PublicKeys, st \in Booleans, ex \in Booleans,
        t \in PromiseTagMaps}

\* the resources such a release has created
PromiseInitialProps ==
    {p \in PromiseProps : p.Name = BaseProps.Name /\ p.ExposePublicKey = "false"
                          /\ p.Tags = BaseProps.Tags}

InitPromise ==
    /\ slice = "promise"
    /\ \E p \in PromiseInitialProps :
          /\ keyPairs = LegacyKeyPairs(p)
          /\ secrets = LegacySecrets(p)
          /\ cfn = [status |-> "created", props |-> p]
    /\ event = NoEvent
    /\ pc = "idle"
    /\ keyPair = NoResult
    /\ response = NoResponse
    /\ outcome = "none"
    /\ error = ""
    /\ calls = <<>>
    /\ atStart = NoSnapshot
    /\ nEvents = 0
    /\ nOutOfBand = 0

\* reject(error): settles the promise unless it is settled already
Reject(msg) ==
    /\ outcome' = IF outcome = "none" THEN "FAILED" ELSE outcome
    /\ error' = IF outcome = "none" THEN msg ELSE error

\* a step's promise rejected: the executor's catch calls reject(error), and the
\* function is at its end
RejectAndEnd(msg) ==
    /\ pc' = "done"
    /\ Reject(msg)

\* resolve() at the end of the executor: settles the promise unless it is
\* settled already
ResolveAndEnd ==
    /\ pc' = "done"
    /\ outcome' = IF outcome = "none" THEN "SUCCESS" ELSE outcome
    /\ error' = error

\* an inner promise is never settled (a rejection nobody handles): the awaiting
\* function never goes on
Hang ==
    /\ pc' = "hung"
    /\ UNCHANGED <<outcome, error>>

\* handler: an Update event is dispatched to updateResource
ReceiveUpdateP ==
    /\ pc = "idle"
    /\ cfn.status = "created"
    /\ nEvents < MaxEvents
    /\ \E p \in PromiseProps :
          event' = [RequestType |-> "Update", ResourceProperties |-> p,
                    OldResourceProperties |-> cfn.props, StackId |-> StackId,
                    LogicalResourceId |-> LogicalResourceId]
    /\ pc' = "updateResourceP"
    /\ calls' = <<>>
    /\ atStart' = [keyPairs |-> keyPairs, secrets |-> secrets]
    /\ response' = NoResponse
    /\ keyPair' = NoResult
    /\ outcome' = "none"
    /\ error' = ""
    /\ nEvents' = nEvents + 1
    /\ UNCHANGED <<slice, keyPairs, secrets, cfn, nOutOfBand>>

\* the if / else-if chain at the head of the executor: the error it rejects
\* with, "" when no branch is taken
ImmutabilityErrorP(e) ==
    IF Changed(e, "Name") THEN RenamedError
    ELSE IF Changed(e, "StorePublicKey") THEN StoreChangedError
    ELSE IF Changed(e, "PublicKey") THEN PublicKeyChangedError
    ELSE ""

\* where the executor goes on after the chain: no branch returns, so the try
\* block with updateKeyPair follows in either case
AfterChecksP(e) == "updateKeyPairP"

\* updateResource, the head of the executor: reject(...) when an immutable
\* property changed
updateResourceP ==
    /\ pc = "updateResourceP"
    /\ pc' = AfterChecksP(event)
    /\ IF ImmutabilityErrorP(event) # ""
       THEN Reject(ImmutabilityErrorP(event))
       ELSE UNCHANGED <<outcome, error>>
    /\ UNCHANGED <<slice, keyPairs, secrets, cfn, event, keyPair, response, calls,
                   atStart, nEvents, nOutOfBand>>

\* updateKeyPair: DescribeKeyPairs, to learn the key pair's id
updateKeyPairP ==
    /\ pc = "updateKeyPairP"
    /\ LET p == event.ResourceProperties
           kp == FirstKeyPair(p.Name)
       IN  \E answer \in DescribeKeyPairsAnswers(p.Name) :
             /\ calls' = Append(calls, Call("DescribeKeyPairs", p.Name, answer))
             /\ IF answer = Ok
                THEN /\ keyPair' = [KeyName |-> kp.KeyName,
                                    KeyPairId |-> kp.KeyPairId,
                                    KeyFingerprint |-> kp.KeyFingerprint,
                                    KeyMaterial |-> Undefined]
                     /\ response' =
                          addResponseValue(
                            addResponseValue(response, "KeyPairName", kp.KeyName),
                            "KeyPairID", kp.KeyPairId)
                     /\ pc' = "updateKeyPairAddTagsP"
                     /\ UNCHANGED <<outcome, error>>
                ELSE /\ RejectAndEnd(IF answer = "empty" THEN KeyPairNotFoundError
                                     ELSE answer)
                     /\ UNCHANGED <<keyPair, response>>
    /\ UNCHANGED <<slice, keyPairs, secrets, cfn, event, atStart, nEvents, nOutOfBand>>

\* JSON.stringify(oldTags) == JSON.stringify(newTags), the guard of the tag steps
SameTagsP(e) ==
    makeTags(e, e.OldResourceProperties.Tags) = makeTags(e, e.ResourceProperties.Tags)

\* updateKeyPairAddTags: CreateTags with the new tag list, unless the lists agree
updateKeyPairAddTagsP ==
    /\ pc = "updateKeyPairAddTagsP"
    /\ LET id == keyPair.KeyPairId
           tagList == makeTags(event, event.ResourceProperties.Tags)
       IN  IF SameTagsP(event)
           THEN /\ pc' = "updateKeyPairRemoveTagsP"
                /\ UNCHANGED <<keyPairs, calls, outcome, error>>
           ELSE \E answer \in CreateTagsAnswers(id, tagList) :
                  /\ calls' = Append(calls,
                        [Call("CreateTags", id, answer) EXCEPT !.Tags = tagList])
                  /\ IF answer = Ok
                     THEN /\ keyPairs' = [keyPairs EXCEPT ![KeyNameOfId(id)].tags =
                                             ApplyTags(@, tagList)]
                          /\ pc' = "updateKeyPairRemoveTagsP"
                          /\ UNCHANGED <<outcome, error>>
                     ELSE /\ RejectAndEnd(answer)
                          /\ UNCHANGED keyPairs
    /\ UNCHANGED <<slice, secrets, cfn, event, keyPair, response, atStart, nEvents, nOutOfBand>>

\* updateKeyPairRemoveTags: DeleteTags for the keys the new list lacks
updateKeyPairRemoveTagsP ==
    /\ pc = "updateKeyPairRemoveTagsP"
    /\ LET id == keyPair.KeyPairId
           keys == tagsToRemove(event)
           tagList == [i \in 1..Len(keys) |->
                         [Key |-> keys[i],
                          Value |-> event.OldResourceProperties.Tags[keys[i]]]]
       IN  IF SameTagsP(event) \/ Len(keys) = 0
           THEN /\ pc' = "updatePrivateKeySecretP"
                /\ UNCHANGED <<keyPairs, calls, outcome, error>>
           ELSE \E answer \in DeleteTagsAnswers(id) :
                  /\ calls' = Append(calls,
                        [Call("DeleteTags", id, answer) EXCEPT
                            !.Tags = tagList, !.TagKeys = keys])
                  /\ IF answer = Ok
                     THEN /\ keyPairs' = [keyPairs EXCEPT ![KeyNameOfId(id)].tags =
                                             Ec2RemoveTags(@, tagList)]
                          /\ pc' = "updatePrivateKeySecretP"
                          /\ UNCHANGED <<outcome, error>>
                     ELSE /\ RejectAndEnd(answer)
                          /\ UNCHANGED keyPairs
    /\ UNCHANGED <<slice, secrets, cfn, event, keyPair, response, atStart, nEvents, nOutOfBand>>

\* updatePrivateKeySecret: UpdateSecret, for an imported key pair too
updatePrivateKeySecretP ==
    /\ pc = "updatePrivateKeySecretP"
    /\ LET p == event.ResourceProperties
           id == PrivateSecretId(p)
           params == updateSecretParams(p.Description \o " (Private key)",
                                        p.KmsPrivate)
       IN  \E answer \in SecretAnswers(id) :
             /\ calls' = Append(calls,
                   [Call("UpdateSecret", id, answer) EXCEPT
                       !.Description = params.Description,
                       !.KmsKeyId = params.KmsKeyId])
             /\ IF answer = Ok
                THEN /\ secrets' = [secrets EXCEPT ![id] = SmUpdateSecret(@, params)]
                     /\ response' =
                          addResponseValue(response, "PrivateKeyARN", secrets[id].ARN)
                     /\ pc' = "updatePublicKeySecretP"
                     /\ UNCHANGED <<outcome, error>>
                ELSE /\ RejectAndEnd(answer)
                     /\ UNCHANGED <<secrets, response>>
    /\ UNCHANGED <<slice, keyPairs, cfn, event, keyPair, atStart, nEvents, nOutOfBand>>

\* secretExists of that release: the list is not empty; every error rejects
secretExistsP(listed) ==
    IF listed = Ok THEN "true"
    ELSE IF listed = "empty" THEN "false"
    ELSE "throw"

\* updatePublicKeySecret: UpdateSecret when secretExists says the secret is
\* there; a rejection of secretExists is handled by nobody
updatePublicKeySecretP ==
    /\ pc = "updatePublicKeySecretP"
    /\ LET p == event.ResourceProperties
           arn == PublicSecretId(p)
           params == updateSecretParams(p.Description \o " (Public Key)",
                                        p.KmsPublic)
       IN  \E listed \in ListSecretsAnswers(arn) :
             LET list == Call("ListSecrets", arn, listed)
             IN  IF secretExistsP(listed) = "throw"
                 THEN /\ calls' = Append(calls, list)
                      /\ Hang
                      /\ UNCHANGED <<secrets, response>>
                 ELSE IF secretExistsP(listed) = "false"
                 THEN /\ calls' = Append(calls, list)
                      /\ pc' = "updateSecretsAddTagsP"
                      /\ UNCHANGED <<secrets, response, outcome, error>>
                 ELSE \E answer \in SecretAnswers(arn) :
                      /\ calls' = Append(Append(calls, list),
                            [Call("UpdateSecret", arn, answer) EXCEPT
                                !.Description = params.Description,
                                !.KmsKeyId = params.KmsKeyId])
                      /\ IF answer = Ok
                         THEN /\ secrets' = [secrets EXCEPT
                                     ![arn] = SmUpdateSecret(@, params)]
                              /\ response' = addResponseValue(response, "PublicKeyARN",
                                                              secrets[arn].ARN)
                              /\ pc' = "updateSecretsAddTagsP"
                              /\ UNCHANGED <<outcome, error>>
                         ELSE /\ RejectAndEnd(answer)
                              /\ UNCHANGED <<secrets, response>>
    /\ UNCHANGED <<slice, keyPairs, cfn, event, keyPair, atStart, nEvents, nOutOfBand>>

\* the two halves of updateSecretsAddTags and updateSecretsRemoveTags
TagStepsP == {"updateSecretsAddTagsP", "updateSecretsRemoveTagsP"}
AfterTagStepP(step) ==
    IF step = "updateSecretsAddTagsP" THEN "updateSecretsRemoveTagsP"
    ELSE "exposePublicKeyP"

\* updateSecretAddTags / updateSecretRemoveTags on one secret: whether a call is
\* made at all
TagCallNeededP(step, e) ==
    IF step = "updateSecretsAddTagsP" THEN ~SameTagsP(e)
    ELSE ~SameTagsP(e) /\ Len(tagsToRemove(e)) > 0

\* the answers to the call of a tag step on a secret
TagAnswersP(step, id, e) ==
    IF step = "updateSecretsAddTagsP"
    THEN TagResourceAnswers(id, makeTags(e, e.ResourceProperties.Tags))
    ELSE SecretAnswers(id)

\* the call of a tag step on a secret
TagCallP(step, id, e, answer) ==
    IF step = "updateSecretsAddTagsP"
    THEN [Call("TagResource", id, answer) EXCEPT
             !.Tags = makeTags(e, e.ResourceProperties.Tags)]
    ELSE [Call("UntagResource", id, answer) EXCEPT !.TagKeys = tagsToRemove(e)]

\* the tags of a secret after the call of a tag step went through
TaggedP(step, tags, e) ==
    IF step = "updateSecretsAddTagsP"
    THEN ApplyTags(tags, makeTags(e, e.ResourceProperties.Tags))
    ELSE SmRemoveTags(tags, tagsToRemove(e))

\* updateSecretsAddTags, updateSecretsRemoveTags, first half: the private
\* secret; its rejection is handled by nobody
updateSecretsTagsPrivateP(step) ==
    /\ pc = step
    /\ LET id == PrivateSecretId(event.ResourceProperties)
       IN  IF ~TagCallNeededP(step, event)
           THEN /\ pc' = step \o "/public"
                /\ UNCHANGED <<secrets, calls, outcome, error>>
           ELSE \E answer \in TagAnswersP(step, id, event) :
                  /\ calls' = Append(calls, TagCallP(step, id, event, answer))
                  /\ IF answer = Ok
                     THEN /\ secrets' = [secrets EXCEPT ![id].tags =
                                            TaggedP(step, @, event)]
                          /\ pc' = step \o "/public"
                          /\ UNCHANGED <<outcome, error>>
                     ELSE /\ Hang
                          /\ UNCHANGED secrets
    /\ UNCHANGED <<slice, keyPairs, cfn, event, keyPair, response, atStart, nEvents, nOutOfBand>>

\* second half: the public secret, when secretExists says it is there; a
\* rejection of secretExists is handled by nobody
updateSecretsTagsPublicP(step) ==
    /\ pc = step \o "/public"
    /\ LET id == PublicSecretId(event.ResourceProperties)
       IN  \E listed \in ListSecretsAnswers(id) :
             LET list == Call("ListSecrets", id, listed)
             IN  IF secretExistsP(listed) = "throw"
                 THEN /\ calls' = Append(calls, list)
                      /\ Hang
                      /\ UNCHANGED secrets
                 ELSE IF secretExistsP(listed) = "false"
                         \/ ~TagCallNeededP(step, event)
                 THEN /\ calls' = Append(calls, list)
                      /\ pc' = AfterTagStepP(step)
                      /\ UNCHANGED <<secrets, outcome, error>>
                 ELSE \E answer \in TagAnswersP(step, id, event) :
                      /\ calls' = Append(Append(calls, list),
                                         TagCallP(step, id, event, answer))
                      /\ IF answer = Ok
                         THEN /\ secrets' = [secrets EXCEPT ![id].tags =
                                                TaggedP(step, @, event)]
                              /\ pc' = AfterTagStepP(step)
                              /\ UNCHANGED <<outcome, error>>
                         ELSE /\ RejectAndEnd(answer)
                              /\ UNCHANGED secrets
    /\ UNCHANGED <<slice, keyPairs, cfn, event, keyPair, response, atStart, nEvents, nOutOfBand>>

\* exposePublicKey: for a key pair that was not imported, makePublicKey finds no
\* KeyMaterial in the described key pair and resolves with what getPrivateKey
\* returns
exposePublicKeyP ==
    /\ pc = "exposePublicKeyP"
    /\ LET p == event.ResourceProperties
           id == PrivateSecretId(p)
       IN  IF p.ExposePublicKey # "true"
           THEN /\ response' = addResponseValue(response, "PublicKeyValue", NotRequested)
                /\ ResolveAndEnd
                /\ UNCHANGED calls
           ELSE IF Len(p.PublicKey) > 0
           THEN /\ response' = addResponseValue(response, "PublicKeyValue", p.PublicKey)
                /\ ResolveAndEnd
                /\ UNCHANGED calls
           ELSE \E answer \in SecretAnswers(id) :
                  /\ calls' = Append(calls, Call("GetSecretValue", id, answer))
                  /\ IF answer = Ok
                     THEN /\ response' = addResponseValue(response, "PublicKeyValue",
                                                          secrets[id].SecretString)
                          /\ ResolveAndEnd
                     ELSE /\ RejectAndEnd(answer)
                          /\ UNCHANGED response
    /\ UNCHANGED <<slice, keyPairs, secrets, cfn, event, keyPair, atStart, nEvents, nOutOfBand>>

\* the steps of the executor behind its head
LaterStepsP ==
    {"updateKeyPairAddTagsP", "updateKeyPairRemoveTagsP", "updatePrivateKeySecretP",
     "updatePublicKeySecretP", "exposePublicKeyP"}
    \cup TagStepsP \cup {step \o "/public" : step \in TagStepsP}

\* once the promise is settled the response is sent, and the runtime may end
\* the invocation before the function has run to its end; DescribeKeyPairs was
\* sent by then, in the same turn as reject(...)
RuntimeEnds ==
    /\ pc \in LaterStepsP
    /\ outcome # "none"
    /\ pc' = "done"
    /\ UNCHANGED <<slice, keyPairs, secrets, cfn, event, keyPair, response, outcome,
                   error, calls, atStart, nEvents, nOutOfBand>>

\* the invocation of a function that never ends is ended by the runtime; a
\* response was sent if the promise had been settled before
TimesOut ==
    /\ pc = "hung"
    /\ pc' = "done"
    /\ outcome' = IF outcome = "none" THEN "FAILED" ELSE outcome
    /\ error' = IF outcome = "none" THEN "Task timed out" ELSE error
    /\ UNCHANGED <<slice, keyPairs, secrets, cfn, event, keyPair, response, calls,
                   atStart, nEvents, nOutOfBand>>

NextPromise ==
    \/ Respond
    \/ ReceiveUpdateP
    \/ updateResourceP
    \/ updateKeyPairP
    \/ updateKeyPairAddTagsP
    \/ updateKeyPairRemoveTagsP
    \/ updatePrivateKeySecretP
    \/ updatePublicKeySecretP
    \/ \E step \in TagStepsP : updateSecretsTagsPrivateP(step)
    \/ \E step \in TagStepsP : updateSecretsTagsPublicP(step)
    \/ exposePublicKeyP
    \/ RuntimeEnds
    \/ TimesOut

PromiseSpec == InitPromise /\ [][NextPromise]_vars

-----------------------------------------------------------------------------
(* Properties *)

New == event.ResourceProperties
Old == event.OldResourceProperties
CallIndexes == 1..Len(calls)
Finished == pc = "done"

\* the key type a set of properties denotes: rsa when it carries none
KeyTypeOf(p) == Coalesce(p.KeyType, "rsa")

\* one of the four immutable properties differs between old and new
ImmutableFieldDiffers(e) ==
    \/ e.OldResourceProperties.Name # e.ResourceProperties.Name
    \/ e.OldResourceProperties.StorePublicKey # e.ResourceProperties.StorePublicKey
    \/ e.OldResourceProperties.PublicKey # e.ResourceProperties.PublicKey
    \/ KeyTypeOf(e.OldResourceProperties) # KeyTypeOf(e.ResourceProperties)

\* the four immutable properties compared as the events carry them
ImmutableFieldDiffersAsSent(e) ==
    \/ e.OldResourceProperties.Name # e.ResourceProperties.Name
    \/ e.OldResourceProperties.StorePublicKey # e.ResourceProperties.StorePublicKey
    \/ e.OldResourceProperties.PublicKey # e.ResourceProperties.PublicKey
    \/ e.OldResourceProperties.KeyType # e.ResourceProperties.KeyType

C2_ImportedKeyHasNoPrivateSecret ==
    (event.RequestType = "Create" /\ Len(New.PublicKey) > 0) =>
        /\ \A i \in CallIndexes :
              /\ ~(calls[i].op = "CreateSecret" /\ calls[i].target = PrivateSecretId(New))
              /\ calls[i].op # "CreateKeyPair"
        /\ pc # "createKeyPair" => (calls # <<>> /\ calls[1].op = "ImportKeyPair")
        /\ secrets[PrivateSecretId(New)] = atStart.secrets[PrivateSecretId(New)]
        /\ outcome = "SUCCESS" => Attr("PrivateKeyARN") = ""

\* an imported key pair was created, its public key stored
C2_Witness ==
    /\ Finished /\ event.RequestType = "Create" /\ outcome = "SUCCESS"
    /\ Len(New.PublicKey) > 0
    /\ \E i \in CallIndexes :
          calls[i].op = "CreateSecret" /\ calls[i].target = PublicSecretId(New)

\* C3: a successful Create with an empty PublicKey creates exactly one secret
\* named <SecretPrefix><Name>/private, whose SecretString is the KeyMaterial the
\* CreateKeyPair call of this invocation returned, and returns as PrivateKeyARN
\* the ARN that CreateSecret call returned.
C3_GeneratedKeyStoredOnce ==
    (Finished /\ outcome = "SUCCESS" /\ event.RequestType = "Create"
       /\ Len(New.PublicKey) = 0) =>
        LET id == PrivateSecretId(New)
            made == {i \in CallIndexes :
                       calls[i].op = "CreateSecret" /\ calls[i].target = id}
            generated == NewKeyMaterial(New.KeyType, nEvents)
        IN  /\ Cardinality(made) = 1
            /\ Cardinality({i \in CallIndexes : calls[i].op = "CreateKeyPair"}) = 1
            /\ keyPair.KeyMaterial = generated
            /\ \A i \in made : calls[i].SecretString = generated /\ calls[i].result = Ok
            /\ secrets[id].exists /\ secrets[id].origin = nEvents
            /\ secrets[id].SecretString = generated
            /\ Attr("PrivateKeyARN") = secrets[id].ARN

\* a key pair was generated and stored by the second Create of a behaviour
C3_Witness ==
    /\ Finished /\ outcome = "SUCCESS" /\ event.RequestType = "Create"
    /\ Len(New.PublicKey) = 0 /\ nEvents > 1
    /\ secrets[PrivateSecretId(New)].SecretString = keyPair.KeyMaterial

\* the mutating calls of a Create, in the order createResource issues them
CreateCalls(p) ==
    << [op |-> IF Len(p.PublicKey) > 0 THEN "ImportKeyPair" ELSE "CreateKeyPair",
        target |-> p.Name] >>
    \o (IF Len(p.PublicKey) > 0 THEN <<>>
        ELSE << [op |-> "CreateSecret", target |-> PrivateSecretId(p)] >>)
    \o (IF p.StorePublicKey = "true"
        THEN << [op |-> "CreateSecret", target |-> PublicSecretId(p)] >>
        ELSE <<>>)

\* C4: the calls of a Create are, in this order, the creation or import of the
\* key pair, CreateSecret for the private key (not when imported), CreateSecret
\* for the public key (only when StorePublicKey is 'true'); a failed call is the
\* last call and the event is reported failed; a successful Create issued all of
\* them; nothing that existed before is deleted.
C4_CreateOrder ==
    event.RequestType = "Create" =>
        /\ Len(calls) <= Len(CreateCalls(New))
        /\ \A i \in CallIndexes :
              /\ calls[i].op = CreateCalls(New)[i].op
              /\ calls[i].target = CreateCalls(New)[i].target
              /\ calls[i].result # Ok =>
                    (i = Len(calls) /\ Finished /\ outcome = "FAILED")
        /\ (Finished /\ outcome = "SUCCESS") => Len(calls) = Len(CreateCalls(New))
        /\ \A n \in Names :
              atStart.keyPairs[n].exists => keyPairs[n] = atStart.keyPairs[n]
        /\ \A id \in SecretIds :
              atStart.secrets[id].exists => secrets[id] = atStart.secrets[id]

\* a Create failed at its second call, with the public key still to be stored
C4_Witness ==
    /\ Finished /\ event.RequestType = "Create" /\ outcome = "FAILED"
    /\ New.StorePublicKey = "true"
    /\ Len(calls) = 2 /\ calls[2].op = "CreateSecret" /\ calls[2].result # Ok
    /\ keyPairs[New.Name].exists /\ keyPairs[New.Name].origin = nEvents

\* a call of a Delete that made the function throw: any answer but success,
\* an empty list, or a not-found error of one of the two existence checks
DeleteCallFailed(c) ==
    /\ c.result # Ok
    /\ ~(c.op \in {"DescribeKeyPairs", "ListSecrets"}
         /\ c.result \in {"empty", "InvalidKeyPair.NotFound",
                          "ResourceNotFoundException"})

\* the key pair or the secret was made by the function, not by someone else
MadeByFunction(r) == r.exists /\ r.origin # Foreign

\* C5: a Delete with the properties of a failed Create, none of whose remote
\* calls fails, ends in success and leaves no key pair named Name and no secret
\* at <SecretPrefix><Name>/private or /public that the function created (a
\* secret deleted with a recovery window counts as removed).
C5_DeleteAfterFailedCreate ==
    (Finished /\ event.RequestType = "Delete" /\ cfn.status = "create_failed"
       /\ \A i \in CallIndexes : ~DeleteCallFailed(calls[i])) =>
        /\ outcome = "SUCCESS"
        /\ ~MadeByFunction(keyPairs[New.Name])
        /\ \A id \in {PrivateSecretId(New), PublicSecretId(New)} :
              ~(MadeByFunction(secrets[id]) /\ Live(id))

\* the Create had failed after it made the key pair and the private secret;
\* the Delete removed both
C5_Witness ==
    /\ Finished /\ event.RequestType = "Delete" /\ cfn.status = "create_failed"
    /\ outcome = "SUCCESS"
    /\ MadeByFunction(atStart.keyPairs[New.Name])
    /\ MadeByFunction(atStart.secrets[PrivateSecretId(New)])
    /\ ~keyPairs[New.Name].exists
    /\ ~secrets[PrivateSecretId(New)].exists

\* C6: a Delete whose DescribeKeyPairs returns an empty list or fails with
\* InvalidKeyPair.NotFound issues no DeleteKeyPair, does not fail at the key
\* pair, and goes on to the private secret and then the public one.
C6_DeleteOfMissingKeyPair ==
    (event.RequestType = "Delete" /\ calls # <<>>
       /\ calls[1].result \in {"empty", "InvalidKeyPair.NotFound"}) =>
        /\ calls[1].op = "DescribeKeyPairs"
        /\ \A i \in CallIndexes : calls[i].op # "DeleteKeyPair"
        /\ Len(calls) = 1 => (pc = "deletePrivateKeySecret" /\ outcome = "none")
        /\ Len(calls) > 1 =>
              /\ calls[2].op = "ListSecrets"
              /\ calls[2].target = PrivateSecretId(New)
        /\ (Finished /\ outcome = "FAILED") =>
              /\ calls[Len(calls)].op \in {"ListSecrets", "DeleteSecret"}
              /\ DeleteCallFailed(calls[Len(calls)])
        /\ (Finished /\ outcome = "SUCCESS") =>
              \A id \in {PrivateSecretId(New), PublicSecretId(New)} :
                 \E i \in CallIndexes :
                    calls[i].op = "ListSecrets" /\ calls[i].target = id

\* the key pair was gone, EC2 said InvalidKeyPair.NotFound, and the Delete went
\* on to delete the private secret
C6_Witness ==
    /\ Finished /\ event.RequestType = "Delete" /\ outcome = "SUCCESS"
    /\ calls[1].result = "InvalidKeyPair.NotFound"
    /\ \E i \in CallIndexes :
          /\ calls[i].op = "DeleteSecret"
          /\ calls[i].target = PrivateSecretId(New)

\* C7: a Delete on a resource whose private and public secrets are both absent
\* issues no DeleteSecret, sets neither PrivateKeyARN nor PublicKeyARN, and ends
\* in success when none of its calls fails; DeleteSecret is only ever issued
\* right after ListSecrets listed that same secret in the same invocation.
C7_DeleteWithoutSecrets ==
    /\ (event.RequestType = "Delete"
          /\ \A id \in {PrivateSecretId(New), PublicSecretId(New)} :
                ~atStart.secrets[id].exists) =>
           /\ \A i \in CallIndexes : calls[i].op # "DeleteSecret"
           /\ Attr("PrivateKeyARN") = Undefined
           /\ Attr("PublicKeyARN") = Undefined
           /\ (Finished /\ \A i \in CallIndexes : ~DeleteCallFailed(calls[i])) =>
                 outcome = "SUCCESS"
    /\ \A i \in CallIndexes :
          calls[i].op = "DeleteSecret" =>
             /\ i > 1
             /\ calls[i - 1].op = "ListSecrets"
             /\ calls[i - 1].target = calls[i].target
             /\ calls[i - 1].result = Ok

\* both secrets of a created resource had been removed by hand; the Delete
\* removed the key pair and succeeded
C7_Witness ==
    /\ Finished /\ event.RequestType = "Delete" /\ outcome = "SUCCESS"
    /\ cfn.status = "created"
    /\ Len(New.PublicKey) = 0
    /\ \A id \in {PrivateSecretId(New), PublicSecretId(New)} :
          ~atStart.secrets[id].exists
    /\ \E i \in CallIndexes : calls[i].op = "DeleteKeyPair"
    /\ Len(calls) = 4

\* the place of a call in the order updateResource issues its calls in
CallRank(c) ==
    CASE c.op = "DescribeKeyPairs" /\ c.target = New.Name -> 1
      [] c.op = "CreateTags" -> 2
      [] c.op = "DeleteTags" -> 3
      [] c.op = "UpdateSecret" /\ c.target = PrivateSecretId(New) -> 4
      [] c.op = "TagResource" /\ c.target = PrivateSecretId(New) -> 5
      [] c.op = "UntagResource" /\ c.target = PrivateSecretId(New) -> 6
      [] c.op = "ListSecrets" /\ c.target = PublicSecretId(New) -> 7
      [] c.op = "UpdateSecret" /\ c.target = PublicSecretId(New) -> 8
      [] c.op = "TagResource" /\ c.target = PublicSecretId(New) -> 9
      [] c.op = "UntagResource" /\ c.target = PublicSecretId(New) -> 10
      [] c.op = "GetSecretValue" /\ c.target = PrivateSecretId(New) -> 11
      [] OTHER -> 0

\* a call of an Update that made the function throw
UpdateCallFailed(c) ==
    /\ c.result # Ok
    /\ ~(c.op = "ListSecrets" /\ c.result \in {"empty", "ResourceNotFoundException"})

Issued(rank) == \E i \in CallIndexes : CallRank(calls[i]) = rank

\* C8: an Update that passes the immutability checks issues its calls in the
\* order DescribeKeyPairs; CreateTags, DeleteTags on the key pair; UpdateSecret,
\* TagResource, UntagResource on the private secret (not for an imported key);
\* the same on the public secret (only when StorePublicKey is 'true'); then the
\* public key is derived and attached. A call is issued only after every
\* earlier call succeeded, and a successful Update went through every group.
C8_UpdateOrder ==
    (event.RequestType = "Update" /\ pc # "updateResource"
       /\ ImmutabilityError(event) = "") =>
        /\ pc # "updateKeyPair" => (calls # <<>> /\ CallRank(calls[1]) = 1)
        /\ \A i \in CallIndexes :
              /\ CallRank(calls[i]) > 0
              /\ i > 1 => CallRank(calls[i - 1]) < CallRank(calls[i])
              /\ UpdateCallFailed(calls[i]) =>
                    (i = Len(calls) /\ Finished /\ outcome = "FAILED")
              /\ CallRank(calls[i]) \in 4..6 => Len(New.PublicKey) = 0
              /\ CallRank(calls[i]) \in 7..10 => New.StorePublicKey = "true"
        /\ Attr("PublicKeyValue") # Undefined => (Finished /\ outcome = "SUCCESS")
        /\ (Finished /\ outcome = "SUCCESS") =>
              /\ Attr("PublicKeyValue") # Undefined
              /\ Len(New.PublicKey) = 0 => Issued(4)
              /\ New.StorePublicKey = "true" => Issued(7)
              /\ Old.Tags # New.Tags =>
                    /\ Issued(2)
                    /\ Len(New.PublicKey) = 0 => Issued(5)
                    /\ New.StorePublicKey = "true" => Issued(9)

\* an Update of the tags of a generated key pair with a stored public key went
\* through all ten calls of the three groups
C8_Witness ==
    /\ Finished /\ event.RequestType = "Update" /\ outcome = "SUCCESS"
    /\ Len(calls) = 10
    /\ \A r \in 1..10 : Issued(r)

\* the key pair's public key was derived from the private secret at the end of
\* an Update
C8_WitnessDerived ==
    /\ Finished /\ event.RequestType = "Update" /\ outcome = "SUCCESS"
    /\ CallRank(calls[Len(calls)]) = 11

TagCalls == {"CreateTags", "DeleteTags", "TagResource", "UntagResource"}

\* C9: an Update whose old and new Tags are the same map issues no CreateTags,
\* DeleteTags, TagResource or UntagResource call.
C9_SameTagsNoTagCalls ==
    (event.RequestType = "Update" /\ Old.Tags = New.Tags) =>
        \A i \in CallIndexes : calls[i].op \notin TagCalls

\* an Update with unchanged user tags went through the key pair and both
\* secrets
C9_Witness ==
    /\ Finished /\ event.RequestType = "Update" /\ outcome = "SUCCESS"
    /\ Old.Tags = New.Tags
    /\ DOMAIN New.Tags # {createdByTag}
    /\ Issued(4) /\ Issued(8)

\* the tags a resource carries when it holds the provenance tags and the tag
\* map given
Carries(tagMap) == ApplyTags(NoTags, makeTags(event, tagMap))

\* how far an Update has come: the rank of the last call it has completed
\* without a failure
Completed(rank) ==
    \/ Finished /\ outcome = "SUCCESS"
    \/ /\ pc \notin {"idle", "done", "updateResource", "updateKeyPair"}
       /\ CASE pc = "updateKeyPairAddTags" -> rank < 2
            [] pc = "updateKeyPairRemoveTags" -> rank < 3
            [] pc = "updatePrivateKeySecret" -> rank < 4
            [] pc = "updateSecretAddTags/private" -> rank < 5
            [] pc = "updateSecretRemoveTags/private" -> rank < 6
            [] pc = "updatePublicKeySecret" -> rank < 7
            [] pc = "updateSecretAddTags/public" -> rank < 9
            [] pc = "updateSecretRemoveTags/public" -> rank < 10
            [] OTHER -> rank < 11
    \/ /\ Finished /\ outcome = "FAILED" /\ calls # <<>>
       /\ CallRank(calls[Len(calls)]) > rank

\* C10: a key pair or secret that carries exactly the provenance tags and the
\* old Tags when an Update begins carries exactly the provenance tags and the
\* new Tags once the Update is past the add-tags and the remove-tags step of
\* that resource.
C10_TagsReconciled ==
    event.RequestType = "Update" =>
        /\ (Completed(3)
              /\ atStart.keyPairs[New.Name].exists
              /\ atStart.keyPairs[New.Name].tags = Carries(Old.Tags)) =>
                 keyPairs[New.Name].tags = Carries(New.Tags)
        /\ (Completed(6)
              /\ Len(New.PublicKey) = 0
              /\ atStart.secrets[PrivateSecretId(New)].exists
              /\ atStart.secrets[PrivateSecretId(New)].tags = Carries(Old.Tags)) =>
                 secrets[PrivateSecretId(New)].tags = Carries(New.Tags)
        /\ (Completed(10)
              /\ New.StorePublicKey = "true"
              /\ atStart.secrets[PublicSecretId(New)].exists
              /\ atStart.secrets[PublicSecretId(New)].tags = Carries(Old.Tags)) =>
                 secrets[PublicSecretId(New)].tags = Carries(New.Tags)

\* an Update that changed the value of one tag and dropped another was applied
\* to the key pair and to both secrets
C10_Witness ==
    /\ Finished /\ event.RequestType = "Update" /\ outcome = "SUCCESS"
    /\ \E k \in DOMAIN Old.Tags \cap DOMAIN New.Tags : Old.Tags[k] # New.Tags[k]
    /\ DOMAIN Old.Tags \ DOMAIN New.Tags # {}
    /\ atStart.keyPairs[New.Name].tags = Carries(Old.Tags)
    /\ keyPairs[New.Name].tags = Carries(New.Tags)
    /\ Issued(3) /\ Issued(6) /\ Issued(10)
    /\ secrets[PrivateSecretId(New)].tags = Carries(New.Tags)
    /\ secrets[PublicSecretId(New)].tags = Carries(New.Tags)


Range(seq) == {seq[i] : i \in 1..Len(seq)}
AddTagCalls == {"CreateTags", "TagResource"}
RemoveTagCalls == {"DeleteTags", "UntagResource"}

\* the old and the new tag set of an Update: provenance tags and event Tags
OldTagSet == Range(makeTags(event, Old.Tags))
NewTagSet == Range(makeTags(event, New.Tags))
KeysOf(tagSet) == {t.Key : t \in tagSet}

\* the entries of the new tag set whose key is new or whose value changed
ChangedEntries == {t \in NewTagSet : t \notin OldTagSet}

\* the keys of the old tag set the new one lacks
DroppedKeys == KeysOf(OldTagSet) \ KeysOf(NewTagSet)

\* C11 as written: the tag list of every add-tags call of an Update is exactly
\* the entries of the new tag set that are new or changed, and the keys of
\* every remove-tags call are exactly the old keys absent from the new set.
\* The add-tags calls carry the whole new tag set instead.
C11_AsWritten ==
    event.RequestType = "Update" =>
        \A i \in CallIndexes :
           /\ calls[i].op \in AddTagCalls => Range(calls[i].Tags) = ChangedEntries
           /\ calls[i].op \in RemoveTagCalls => Range(calls[i].TagKeys) = DroppedKeys

\* C11: the tag list of every add-tags call (CreateTags / TagResource) of an
\* Update is the whole new tag set, the three provenance tags and every entry
\* of the new Tags, changed or not; the keys of every remove-tags call
\* (DeleteTags / UntagResource) are exactly the keys of the old tag set that the
\* new one lacks, each named once, and there is at least one.
C11_TagCallsOfUpdate ==
    event.RequestType = "Update" =>
        \A i \in CallIndexes :
           /\ calls[i].op \in AddTagCalls =>
                 /\ calls[i].Tags = makeTags(event, New.Tags)
                 /\ ChangedEntries \subseteq Range(calls[i].Tags)
           /\ calls[i].op \in RemoveTagCalls =>
                 /\ Range(calls[i].TagKeys) = DroppedKeys
                 /\ Len(calls[i].TagKeys) = Cardinality(DroppedKeys)
                 /\ DroppedKeys # {}
           /\ calls[i].op = "DeleteTags" =>
                 \A j \in 1..Len(calls[i].Tags) :
                    /\ calls[i].Tags[j].Key = calls[i].TagKeys[j]
                    /\ calls[i].Tags[j].Value = Old.Tags[calls[i].TagKeys[j]]

\* an Update that kept one tag, changed none and dropped another sent
\* CreateTags, DeleteTags, TagResource and UntagResource
C11_Witness ==
    /\ Finished /\ event.RequestType = "Update" /\ outcome = "SUCCESS"
    /\ DOMAIN New.Tags = {createdByTag, "env"}
    /\ DOMAIN Old.Tags = {createdByTag, "env", "team"}
    /\ New.Tags["env"] = Old.Tags["env"]
    /\ \A op \in AddTagCalls \cup RemoveTagCalls :
          \E i \in CallIndexes : calls[i].op = op


\* the calls of the given kinds sent to the given key pair id or secret name
CallsTo(ops, target) ==
    {i \in CallIndexes : calls[i].op \in ops /\ calls[i].target = target}

\* C12: an Update whose old and new Tags have the same keys and differ in at
\* least one value issues no remove-tags call, and at most one add-tags call
\* per resource; when it succeeds it has issued exactly one add-tags call
\* against the key pair, one against the private secret unless the key was
\* imported, and one against the public secret when StorePublicKey is 'true'.
C12_ValueChangeAddsOnce ==
    (event.RequestType = "Update"
       /\ DOMAIN Old.Tags = DOMAIN New.Tags /\ Old.Tags # New.Tags) =>
        /\ \A i \in CallIndexes : calls[i].op \notin RemoveTagCalls
        /\ Cardinality({i \in CallIndexes : calls[i].op = "CreateTags"}) <= 1
        /\ \A id \in {PrivateSecretId(New), PublicSecretId(New)} :
              Cardinality(CallsTo({"TagResource"}, id)) <= 1
        /\ (Finished /\ outcome = "SUCCESS") =>
              /\ Cardinality(CallsTo({"CreateTags"}, keyPair.KeyPairId)) = 1
              /\ Cardinality(CallsTo({"TagResource"}, PrivateSecretId(New)))
                    = IF Len(New.PublicKey) = 0 THEN 1 ELSE 0
              /\ Cardinality(CallsTo({"TagResource"}, PublicSecretId(New)))
                    = IF New.StorePublicKey = "true" THEN 1 ELSE 0

\* env went from dev to prod on a generated key pair with both secrets
C12_Witness ==
    /\ Finished /\ event.RequestType = "Update" /\ outcome = "SUCCESS"
    /\ DOMAIN Old.Tags = {createdByTag, "env"} /\ DOMAIN New.Tags = DOMAIN Old.Tags
    /\ Old.Tags["env"] = "dev" /\ New.Tags["env"] = "prod"
    /\ Len(New.PublicKey) = 0 /\ New.StorePublicKey = "true"
    /\ secrets[PublicSecretId(New)].tags["env"] = "prod"


ProvenanceKeys ==
    {"aws-cloudformation:stack-id", "aws-cloudformation:stack-name",
     "aws-cloudformation:logical-id"}

\* C13: no DeleteTags or UntagResource call of an Update names one of the three
\* provenance tag keys, and the tag list of every CreateTags or TagResource
\* call contains all three, with the stack id, the stack name and the logical
\* id of the event.
C13_ProvenanceTagsKept ==
    event.RequestType = "Update" =>
        \A i \in CallIndexes :
           /\ calls[i].op \in RemoveTagCalls =>
                 /\ Range(calls[i].TagKeys) \cap ProvenanceKeys = {}
                 /\ KeysOf(Range(calls[i].Tags)) \cap ProvenanceKeys = {}
           /\ calls[i].op \in AddTagCalls =>
                 /\ ProvenanceKeys \subseteq KeysOf(Range(calls[i].Tags))
                 /\ [Key |-> "aws-cloudformation:stack-id", Value |-> event.StackId]
                       \in Range(calls[i].Tags)
                 /\ [Key |-> "aws-cloudformation:stack-name", Value |-> New.StackName]
                       \in Range(calls[i].Tags)
                 /\ [Key |-> "aws-cloudformation:logical-id",
                     Value |-> event.LogicalResourceId] \in Range(calls[i].Tags)

\* an Update that dropped every user tag sent add-tags and remove-tags calls,
\* and the key pair and the private secret still carry the provenance tags
C13_Witness ==
    /\ Finished /\ event.RequestType = "Update" /\ outcome = "SUCCESS"
    /\ DOMAIN New.Tags = {createdByTag}
    /\ DOMAIN Old.Tags = {createdByTag, "env", "team"}
    /\ \E i \in CallIndexes : calls[i].op = "DeleteTags"
    /\ \E i \in CallIndexes : calls[i].op = "UntagResource"
    /\ ProvenanceKeys \subseteq DOMAIN keyPairs[New.Name].tags
    /\ ProvenanceKeys \subseteq DOMAIN secrets[PrivateSecretId(New)].tags


CreatingCalls == {"CreateKeyPair", "ImportKeyPair", "CreateSecret"}

\* the key pairs and secrets the function made (in this or an earlier release)
MadeKeyPairs == {n \in Names : MadeByFunction(keyPairs[n])}
MadeSecrets == {id \in SecretIds : MadeByFunction(secrets[id])}

\* C14: every CreateKeyPair, ImportKeyPair and CreateSecret call of a Create
\* carries the full tag set, the three provenance tags and all event Tags; the
\* key pair or secret it makes holds exactly those tags from the moment it
\* exists; and in no reachable state does a key pair or secret made by the
\* function lack a provenance tag.
C14_TaggedAtCreation ==
    /\ event.RequestType = "Create" =>
          /\ \A i \in CallIndexes :
                calls[i].op \in CreatingCalls =>
                   /\ calls[i].Tags = makeTags(event, New.Tags)
                   /\ ProvenanceKeys \cup DOMAIN New.Tags
                         = KeysOf(Range(calls[i].Tags))
          /\ \A n \in MadeKeyPairs :
                keyPairs[n].origin = nEvents => keyPairs[n].tags = Carries(New.Tags)
          /\ \A id \in MadeSecrets :
                secrets[id].origin = nEvents => secrets[id].tags = Carries(New.Tags)
    /\ \A n \in MadeKeyPairs : ProvenanceKeys \subseteq DOMAIN keyPairs[n].tags
    /\ \A id \in MadeSecrets : ProvenanceKeys \subseteq DOMAIN secrets[id].tags

\* a Create with two user tags has just made the key pair, and nothing else yet
C14_Witness ==
    /\ event.RequestType = "Create" /\ pc = "createPrivateKeySecret"
    /\ DOMAIN New.Tags = {createdByTag, "env", "team"}
    /\ keyPairs[New.Name].exists /\ keyPairs[New.Name].origin = nEvents
    /\ DOMAIN keyPairs[New.Name].tags = ProvenanceKeys \cup DOMAIN New.Tags
    /\ ~secrets[PrivateSecretId(New)].exists


\* C15: every CreateKeyPair, ImportKeyPair and CreateSecret call carries the
\* ownership tag CreatedByCfnCustomResource = CFN::Resource::Custom::EC2-Key-Pair;
\* no remove-tags call of an Update names it, every add-tags call sends it
\* again, and whatever the function made carries it in every state.
C15_OwnershipTagKept ==
    /\ \A i \in CallIndexes :
          /\ calls[i].op \in CreatingCalls \cup AddTagCalls =>
                [Key |-> createdByTag, Value |-> ID] \in Range(calls[i].Tags)
          /\ calls[i].op \in RemoveTagCalls =>
                /\ createdByTag \notin Range(calls[i].TagKeys)
                /\ createdByTag \notin KeysOf(Range(calls[i].Tags))
    /\ \A n \in MadeKeyPairs : HasOwnerTag(keyPairs[n].tags)
    /\ \A id \in MadeSecrets : HasOwnerTag(secrets[id].tags)

\* an Update replaced the only user tag by another one; the key pair and both
\* secrets still carry the ownership tag
C15_Witness ==
    /\ Finished /\ event.RequestType = "Update" /\ outcome = "SUCCESS"
    /\ DOMAIN Old.Tags = {createdByTag, "env"}
    /\ DOMAIN New.Tags = {createdByTag, "team"}
    /\ \E i \in CallIndexes : calls[i].op = "UntagResource"
    /\ HasOwnerTag(keyPairs[New.Name].tags)
    /\ HasOwnerTag(secrets[PrivateSecretId(New)].tags)
    /\ HasOwnerTag(secrets[PublicSecretId(New)].tags)


\* the calls the policy allows only on resources that carry the ownership tag
GuardedCalls ==
    {"DeleteKeyPair", "DeleteTags", "DeleteSecret", "UpdateSecret", "UntagResource"}

Unowned(r) == r.exists /\ ~HasOwnerTag(r.tags)

\* the call is aimed at a key pair or secret that did not carry the ownership
\* tag when the invocation began
AimedAtUnowned(c) ==
    CASE c.op = "DeleteKeyPair" -> Unowned(atStart.keyPairs[c.target])
      [] c.op = "DeleteTags" ->
            \E n \in Names : /\ Unowned(atStart.keyPairs[n])
                             /\ atStart.keyPairs[n].KeyPairId = c.target
      [] OTHER -> Unowned(atStart.secrets[c.target])

\* C16: a DeleteKeyPair, DeleteTags, DeleteSecret, UpdateSecret or
\* UntagResource call aimed at a key pair or secret without the ownership tag
\* is refused, and such a key pair or secret is the same at every point of an
\* invocation as when the invocation began; so a Delete that follows a Create
\* which failed on a resource already there does not remove that resource.
C16_UnownedResourcesUntouched ==
    pc # "idle" =>
        /\ \A i \in CallIndexes :
              (calls[i].op \in GuardedCalls /\ AimedAtUnowned(calls[i])) =>
                 calls[i].result \in {AccessDenied, ServiceError}
        /\ \A n \in Names :
              Unowned(atStart.keyPairs[n]) => keyPairs[n] = atStart.keyPairs[n]
        /\ \A id \in SecretIds :
              Unowned(atStart.secrets[id]) => secrets[id] = atStart.secrets[id]

\* the Create had failed on a key pair of that name made by someone else; the
\* Delete found it, was refused DeleteKeyPair, and the key pair is still there
C16_Witness ==
    /\ Finished /\ event.RequestType = "Delete" /\ cfn.status = "create_failed"
    /\ outcome = "FAILED" /\ error = AccessDenied
    /\ calls[Len(calls)].op = "DeleteKeyPair"
    /\ keyPairs[New.Name].exists /\ keyPairs[New.Name].origin = Foreign

\* the same for a secret: the Delete removed the key pair the Create had made,
\* was refused DeleteSecret on the private secret made by someone else
C16_WitnessSecret ==
    /\ Finished /\ event.RequestType = "Delete" /\ cfn.status = "create_failed"
    /\ outcome = "FAILED" /\ error = AccessDenied
    /\ calls[Len(calls)].op = "DeleteSecret"
    /\ ~keyPairs[New.Name].exists
    /\ secrets[calls[Len(calls)].target].origin = Foreign


\* the recovery window each RemoveKeySecretsAfterDays of the model stands for:
\* "7" and "10" are 7 and 10 days, "0" and "x" give none
WindowOf(days) ==
    CASE days = <<"7">> -> 7
      [] days = <<"1", "0">> -> 10
      [] OTHER -> 0

\* C17: every DeleteSecret request sets exactly one of RecoveryWindowInDays and
\* ForceDeleteWithoutRecovery: the window, equal to the number
\* RemoveKeySecretsAfterDays parses to, when that number is above 0, and
\* ForceDeleteWithoutRecovery = true when it is 0 or no number.
C17_DeleteSecretParams ==
    \A i \in CallIndexes :
       calls[i].op = "DeleteSecret" =>
          LET window == WindowOf(New.RemoveKeySecretsAfterDays)
          IN  /\ window > 0 =>
                    /\ calls[i].RecoveryWindowInDays = window
                    /\ ~calls[i].ForceDeleteWithoutRecovery
              /\ window = 0 =>
                    /\ calls[i].ForceDeleteWithoutRecovery
                    /\ calls[i].RecoveryWindowInDays = 0
              /\ calls[i].result = Ok =>
                    IF window > 0
                    THEN secrets[calls[i].target].exists
                         /\ secrets[calls[i].target].deleted
                    ELSE ~secrets[calls[i].target].exists

\* a Delete with RemoveKeySecretsAfterDays "10" scheduled the private secret
\* for deletion in 10 days
C17_Witness ==
    /\ Finished /\ event.RequestType = "Delete" /\ outcome = "SUCCESS"
    /\ New.RemoveKeySecretsAfterDays = <<"1", "0">>
    /\ \E i \in CallIndexes :
          /\ calls[i].op = "DeleteSecret"
          /\ calls[i].RecoveryWindowInDays = 10
          /\ secrets[calls[i].target].deleted

\* a Delete with RemoveKeySecretsAfterDays "x" forced the deletion
C17_WitnessNotANumber ==
    /\ Finished /\ event.RequestType = "Delete" /\ outcome = "SUCCESS"
    /\ New.RemoveKeySecretsAfterDays = <<"x">>
    /\ \E i \in CallIndexes :
          calls[i].op = "DeleteSecret" /\ calls[i].ForceDeleteWithoutRecovery


MutatingUpdateCalls ==
    {"CreateTags", "DeleteTags", "UpdateSecret", "TagResource", "UntagResource"}

Raised(c) == c.result \notin {Ok, "empty"}

\* a not-found error of an existence check: keyPairExists (used by Delete) or
\* secretExists
NotFoundOfExistenceCheck(c) ==
    \/ /\ c.op = "DescribeKeyPairs" /\ event.RequestType = "Delete"
       /\ c.result \in {"InvalidKeyPair.NotFound", "ResourceNotFoundException"}
    \/ c.op = "ListSecrets" /\ c.result = "ResourceNotFoundException"

\* C19: an error raised by a remote call of a Create, Update or Delete either
\* is a not-found error of an existence check, and then the invocation does
\* not fail on it, or it is the last call of the invocation and the event
\* fails with that error.
C19_ErrorsPropagate ==
    \A i \in CallIndexes :
       Raised(calls[i]) =>
          IF NotFoundOfExistenceCheck(calls[i])
          THEN (i = Len(calls) /\ Finished) => outcome = "SUCCESS"
          ELSE /\ i = Len(calls)
               /\ Finished /\ outcome = "FAILED"
               /\ error = calls[i].result

\* a Delete took InvalidKeyPair.NotFound for an absent key pair, then failed
\* on a service error of the existence check of the private secret
C19_Witness ==
    /\ Finished /\ event.RequestType = "Delete" /\ outcome = "FAILED"
    /\ Len(calls) = 2
    /\ calls[1].result = "InvalidKeyPair.NotFound"
    /\ calls[2].op = "ListSecrets" /\ calls[2].result = ServiceError
    /\ error = ServiceError


\* the private key material the public key of the event's key pair derives
\* from: returned by CreateKeyPair in a Create, held by the private key secret
\* in an Update
PrivateKeyMaterial ==
    IF event.RequestType = "Create"
    THEN keyPair.KeyMaterial
    ELSE secrets[PrivateSecretId(New)].SecretString

\* the text a public key is handed out as: base64 when the format is rfc4253
AsExposed(k) == IF New.PublicKeyFormat = RFC4253 THEN Base64(k) ELSE k

C20_WitnessNotRequested ==
    /\ Finished /\ outcome = "SUCCESS" /\ event.RequestType = "Create"
    /\ New.ExposePublicKey # "true" /\ New.StorePublicKey = "true"
    /\ Attr("PublicKeyValue") = NotRequested


\* C21: every successful Create, of a generated or of an imported key pair, and
\* every successful Update returns the attributes KeyPairName, KeyPairID and
\* KeyPairFingerprint, the last being the fingerprint of the key pair.
C21_AttributesReturned ==
    (/\ Finished /\ outcome = "SUCCESS"
     /\ event.RequestType \in {"Create", "Update"}) =>
       /\ {"KeyPairName", "KeyPairID", "KeyPairFingerprint"} \subseteq DOMAIN response
       /\ Attr("KeyPairName") = New.Name
       /\ Attr("KeyPairID") = keyPairs[New.Name].KeyPairId
       /\ Attr("KeyPairFingerprint") = keyPairs[New.Name].KeyFingerprint


\* what holds of C21: the three attributes are returned by every successful
\* Update and by every successful Create of a generated key pair; the Create of
\* an imported key pair returns the fingerprint as KeyFingerprint and no
\* KeyPairFingerprint at all
C21_ExceptImportedCreate ==
    (/\ Finished /\ outcome = "SUCCESS"
     /\ event.RequestType \in {"Create", "Update"}) =>
       LET attr == IF event.RequestType = "Create" /\ Len(New.PublicKey) > 0
                   THEN "KeyFingerprint" ELSE "KeyPairFingerprint"
       IN  /\ DOMAIN response \cap {"KeyFingerprint", "KeyPairFingerprint"} = {attr}
           /\ Attr("KeyPairName") = New.Name
           /\ Attr("KeyPairID") = keyPairs[New.Name].KeyPairId
           /\ Attr(attr) = keyPairs[New.Name].KeyFingerprint

C21_Witness ==
    /\ Finished /\ outcome = "SUCCESS" /\ event.RequestType = "Create"
    /\ Len(New.PublicKey) > 0
    /\ Attr("KeyFingerprint") = Fingerprint(New.PublicKey)
    /\ "KeyPairFingerprint" \notin DOMAIN response


\* a Create of a generated ed25519 key pair asking for the pkcs1 format
Ed25519Pkcs1Create ==
    /\ pc # "idle" /\ event.RequestType = "Create"
    /\ New.KeyType = "ed25519" /\ New.PublicKeyFormat = "pkcs1"
    /\ Len(New.PublicKey) = 0

\* C22: a Create with KeyType ed25519 and PublicKeyFormat pkcs1 fails before any
\* remote call is made: it issues no CreateKeyPair and no CreateSecret call.
C22_FailsBeforeAnyCall ==
    Ed25519Pkcs1Create =>
       /\ \A i \in CallIndexes : calls[i].op \notin {"CreateKeyPair", "CreateSecret"}
       /\ Finished => outcome = "FAILED"

\* what holds of C22: the Create never succeeds, but the unsupported format is
\* found only when the public key is derived in createPublicKeySecret, after
\* CreateKeyPair and the CreateSecret of the private key; when both succeeded
\* the event fails and leaves the key pair and the private secret behind
C22_FailsAfterCreating ==
    (Ed25519Pkcs1Create /\ Finished) =>
       /\ outcome = "FAILED"
       /\ (error = "UnsupportedFormat") <=>
             /\ Len(calls) = 2
             /\ calls[1].op = "CreateKeyPair" /\ calls[1].result = Ok
             /\ calls[2].op = "CreateSecret" /\ calls[2].result = Ok
             /\ calls[2].target = PrivateSecretId(New)
       /\ error = "UnsupportedFormat" =>
             /\ keyPairs[New.Name].exists
             /\ secrets[PrivateSecretId(New)].exists

C22_Witness ==
    /\ Ed25519Pkcs1Create /\ Finished /\ outcome = "FAILED"
    /\ error = "UnsupportedFormat"
    /\ Len(calls) = 2 /\ calls[2].result = Ok
    /\ ~atStart.keyPairs[New.Name].exists
    /\ keyPairs[New.Name].exists
    /\ secrets[PrivateSecretId(New)].SecretString = NewKeyMaterial("ed25519", nEvents)


\* the public key of the event's key pair before it is handed out: the imported
\* key, or the key derived from the private key material
RawPublicKey ==
    IF Len(New.PublicKey) > 0 THEN New.PublicKey
    ELSE PublicKeyString(PrivateKeyMaterial, New.Name, New.PublicKeyFormat)

\* C23: whenever a Create or Update succeeds with ExposePublicKey 'true', the
\* attribute PublicKeyValue is the base64 encoding of the public key when
\* PublicKeyFormat is rfc4253, and the public key string unchanged for every
\* other format.
C23_Base64OnlyForRfc4253 ==
    (/\ Finished /\ outcome = "SUCCESS"
     /\ event.RequestType \in {"Create", "Update"}
     /\ New.ExposePublicKey = "true") =>
       IF New.PublicKeyFormat = "rfc4253"
       THEN /\ Attr("PublicKeyValue") = Base64(RawPublicKey)
            /\ Attr("PublicKeyValue") # RawPublicKey
       ELSE Attr("PublicKeyValue") = RawPublicKey

\* a successful Create exposing a generated key in the rfc4253 format
C23_Witness ==
    /\ Finished /\ outcome = "SUCCESS" /\ event.RequestType = "Create"
    /\ New.ExposePublicKey = "true" /\ New.PublicKeyFormat = "rfc4253"
    /\ Len(New.PublicKey) = 0
    /\ Attr("PublicKeyValue") =
          Base64(PublicKeyString(keyPair.KeyMaterial, New.Name, "rfc4253"))

\* a successful Update exposing a generated key in the pkcs1 format
C23_WitnessOtherFormat ==
    /\ Finished /\ outcome = "SUCCESS" /\ event.RequestType = "Update"
    /\ New.ExposePublicKey = "true" /\ New.PublicKeyFormat = "pkcs1"
    /\ Len(New.PublicKey) = 0
    /\ Attr("PublicKeyValue") =
          PublicKeyString(secrets[PrivateSecretId(New)].SecretString, New.Name, "pkcs1")


\* the secrets of the event's resource
OwnSecretIds == {PrivateSecretId(New), PublicSecretId(New)}

\* C24: no UpdateSecret request carries a secret value, and at every point of an
\* Update event each secret that existed when the event arrived and still
\* exists holds the SecretString it held then; so across any sequence of Update
\* events the private and the public secret keep the value written at Create.
C24_UpdateKeepsSecretValue ==
    /\ \A i \in CallIndexes :
          calls[i].op = "UpdateSecret" => calls[i].SecretString = Undefined
    /\ (pc # "idle" /\ event.RequestType = "Update") =>
          \A id \in DOMAIN secrets :
             (atStart.secrets[id].exists /\ secrets[id].exists) =>
                secrets[id].SecretString = atStart.secrets[id].SecretString

\* a successful Update that changed the description of both secrets of a key
\* pair this stack generated, and left their values as the Create wrote them
C24_Witness ==
    /\ Finished /\ outcome = "SUCCESS" /\ event.RequestType = "Update"
    /\ Len(New.PublicKey) = 0
    /\ Old.Description # New.Description
    /\ \A id \in OwnSecretIds :
          /\ \E i \in CallIndexes :
                /\ calls[i].op = "UpdateSecret" /\ calls[i].target = id
                /\ calls[i].result = Ok
          /\ secrets[id].Description # atStart.secrets[id].Description
          /\ secrets[id].SecretString = atStart.secrets[id].SecretString
    /\ secrets[PrivateSecretId(New)].SecretString = NewKeyMaterial(New.KeyType, 1)


\* the calls that make or remove a key pair or a secret
LifecycleCalls ==
    {"CreateKeyPair", "ImportKeyPair", "CreateSecret", "DeleteKeyPair", "DeleteSecret"}

\* C25: no Update event issues CreateKeyPair, ImportKeyPair, CreateSecret,
\* DeleteKeyPair or DeleteSecret, and at every point of an Update, whether it
\* goes on to succeed or to fail, the key pairs and secrets that exist are those
\* that existed when the event arrived (the same key pair ids, the same secrets,
\* none newly scheduled for deletion).
C25_UpdateCreatesAndDeletesNothing ==
    (pc # "idle" /\ event.RequestType = "Update") =>
       /\ \A i \in CallIndexes : calls[i].op \notin LifecycleCalls
       /\ \A n \in Names :
             /\ keyPairs[n].exists = atStart.keyPairs[n].exists
             /\ keyPairs[n].exists =>
                   keyPairs[n].KeyPairId = atStart.keyPairs[n].KeyPairId
       /\ \A id \in SecretIds :
             /\ secrets[id].exists = atStart.secrets[id].exists
             /\ secrets[id].exists =>
                   secrets[id].deleted = atStart.secrets[id].deleted

\* a successful Update of a generated key pair with both secrets that changed
\* a secret, and a failed one that had changed a secret before it failed
C25_Witness ==
    /\ Finished /\ outcome = "SUCCESS" /\ event.RequestType = "Update"
    /\ Len(New.PublicKey) = 0 /\ New.StorePublicKey = "true"
    /\ secrets # atStart.secrets
    /\ keyPairs[New.Name].exists
    /\ \A id \in OwnSecretIds : secrets[id].exists

C25_WitnessFailed ==
    /\ Finished /\ outcome = "FAILED" /\ event.RequestType = "Update"
    /\ Len(calls) >= 3
    /\ secrets # atStart.secrets


\* the properties that differ between the old and the new properties of an Update
ChangedFields == {f \in DOMAIN New : New[f] # Old[f]}

\* a finished Update of a generated key pair whose key pair and secrets, under
\* their old names, were in place when it arrived, and whose calls met no
\* failure of the services
HealthyUpdateOfGenerated ==
    /\ Finished /\ event.RequestType = "Update"
    /\ Len(New.PublicKey) = 0
    /\ atStart.keyPairs[Old.Name].exists
    /\ MadeByFunction(atStart.keyPairs[Old.Name])
    /\ atStart.secrets[PrivateSecretId(Old)].exists
    /\ ~atStart.secrets[PrivateSecretId(Old)].deleted
    /\ Old.StorePublicKey = "true" =>
          /\ atStart.secrets[PublicSecretId(Old)].exists
          /\ ~atStart.secrets[PublicSecretId(Old)].deleted
    /\ \A i \in CallIndexes : calls[i].result # ServiceError

\* C26: an Update of a generated key pair that changes only SecretPrefix, with
\* the secrets of the earlier Create still present and the remote services
\* healthy, completes successfully.
C26_PrefixChangeSucceeds ==
    (HealthyUpdateOfGenerated /\ ChangedFields = {"SecretPrefix"}) =>
       outcome = "SUCCESS"

\* what holds of C26: such an Update always fails, at the UpdateSecret of the
\* private secret under the new prefix, where no secret is, and changes
\* nothing; an Update that changes only Description or only
\* RemoveKeySecretsAfterDays succeeds
C26_PrefixChangeFails ==
    HealthyUpdateOfGenerated =>
       /\ ChangedFields = {"SecretPrefix"} =>
             /\ outcome = "FAILED"
             /\ error = "ResourceNotFoundException"
             /\ Len(calls) = 2
             /\ calls[2].op = "UpdateSecret"
             /\ calls[2].target = PrivateSecretId(New)
             /\ secrets = atStart.secrets /\ keyPairs = atStart.keyPairs
       /\ (\/ ChangedFields = {"Description"}
           \/ ChangedFields = {"RemoveKeySecretsAfterDays"}) =>
             outcome = "SUCCESS"

C26_Witness ==
    /\ HealthyUpdateOfGenerated /\ ChangedFields = {"SecretPrefix"}
    /\ outcome = "FAILED" /\ error = "ResourceNotFoundException"
    /\ calls[1].op = "DescribeKeyPairs" /\ calls[1].result = Ok
    /\ calls[2].op = "UpdateSecret" /\ calls[2].target = PrivateSecretId(New)
    /\ atStart.secrets[PrivateSecretId(Old)].origin = 1

C26_WitnessDescription ==
    /\ HealthyUpdateOfGenerated /\ ChangedFields = {"Description"}
    /\ outcome = "SUCCESS"


\* C27: on a successful Create of a generated key pair with StorePublicKey and
\* ExposePublicKey both 'true' and a format other than rfc4253, a public secret
\* named <SecretPrefix><Name>/public is created whose SecretString equals the
\* attribute PublicKeyValue, and both are the public key, in the requested
\* PublicKeyFormat, derived from the KeyMaterial that CreateKeyPair returned in
\* that invocation.
C27_StoredEqualsExposed ==
    (/\ Finished /\ outcome = "SUCCESS" /\ event.RequestType = "Create"
     /\ Len(New.PublicKey) = 0
     /\ New.StorePublicKey = "true" /\ New.ExposePublicKey = "true"
     /\ New.PublicKeyFormat # "rfc4253") =>
       LET id == New.SecretPrefix \o New.Name \o "/public"
           derived == PublicKeyString(NewKeyMaterial(New.KeyType, nEvents),
                                      New.Name, New.PublicKeyFormat)
       IN  /\ calls[1].op = "CreateKeyPair" /\ calls[1].result = Ok
           /\ keyPair.KeyMaterial = NewKeyMaterial(New.KeyType, nEvents)
           /\ \E i \in CallIndexes :
                 /\ calls[i].op = "CreateSecret" /\ calls[i].target = id
                 /\ calls[i].result = Ok
                 /\ calls[i].SecretString = derived
           /\ ~atStart.secrets[id].exists
           /\ secrets[id].exists
           /\ secrets[id].SecretString = derived
           /\ Attr("PublicKeyValue") = derived
           /\ Attr("PublicKeyARN") = secrets[id].ARN

\* such a Create of an rsa key pair in the pkcs1 format
C27_Witness ==
    /\ Finished /\ outcome = "SUCCESS" /\ event.RequestType = "Create"
    /\ Len(New.PublicKey) = 0 /\ New.KeyType = "rsa"
    /\ New.StorePublicKey = "true" /\ New.ExposePublicKey = "true"
    /\ New.PublicKeyFormat = "pkcs1"
    /\ secrets[PublicSecretId(New)].SecretString = Attr("PublicKeyValue")
    /\ Len(calls) = 3


\* an immutability check of an Update raised
ImmutabilityCheckRaised ==
    /\ event.RequestType = "Update"
    /\ \/ Old.Name # New.Name
       \/ Old.StorePublicKey # New.StorePublicKey
       \/ Old.PublicKey # New.PublicKey
       \/ New.KeyType # KeyTypeOf(Old)

\* a remote call raised an error that no existence check caught
CallRaised ==
    \E i \in CallIndexes :
       Raised(calls[i]) /\ ~NotFoundOfExistenceCheck(calls[i])

\* a step raised an error of its own: updateKeyPair on an empty answer, or the
\* derivation of the public key on a format the key type cannot be written in
StepRaisedItself ==
    \/ /\ event.RequestType = "Update" /\ calls # <<>>
       /\ calls[1].op = "DescribeKeyPairs" /\ calls[1].result = "empty"
    \/ /\ event.RequestType = "Create" /\ Len(New.PublicKey) = 0
       /\ ~CallRaised /\ Len(calls) = 2
       /\ ~CanEncode(keyPair.KeyMaterial, New.PublicKeyFormat)
    \/ /\ event.RequestType = "Update" /\ Len(New.PublicKey) = 0
       /\ New.ExposePublicKey = "true"
       /\ ~ImmutabilityCheckRaised /\ ~CallRaised
       /\ calls # <<>> /\ calls[Len(calls)].op = "GetSecretValue"
       /\ ~CanEncode(secrets[PrivateSecretId(New)].SecretString, New.PublicKeyFormat)

\* the outcome of an invocation: none while it runs, one once it has ended,
\* and then FAILED exactly when something raised
OneOutcome ==
    /\ outcome \in {"none", "SUCCESS", "FAILED"}
    /\ (outcome # "none") <=> Finished
    /\ Finished =>
          ((outcome = "FAILED") <=>
              (ImmutabilityCheckRaised \/ CallRaised \/ StepRaisedItself))
    /\ Finished => ((outcome = "FAILED") <=> (error # ""))

\* C28: every lifecycle invocation ends, and ends with exactly one outcome: the
\* function is always again at rest, finished or waiting for an event, and an
\* invocation under way comes to rest only by finishing; the outcome is set
\* once, when the invocation finishes, and is not changed before the response
\* is sent; it is FAILED if and only if an immutability check, a remote call or
\* a step of its own raised an error that was not caught, and SUCCESS otherwise.
C28_EndsWithOneOutcome ==
    /\ []OneOutcome
    /\ [][outcome # "none" => (pc' = "idle" /\ outcome' = "none")]_vars
    /\ [][pc \notin {"idle", "done"} => pc' # "idle"]_vars
    /\ []<>(pc \in {"idle", "done"})

\* an Update that ran through all its steps for a generated key pair with both
\* secrets and succeeded, and a Delete that failed at its last call
C28_Witness ==
    /\ Finished /\ outcome = "SUCCESS" /\ event.RequestType = "Update"
    /\ Len(New.PublicKey) = 0 /\ New.StorePublicKey = "true"
    /\ New.ExposePublicKey = "true"
    /\ Len(calls) >= 5 /\ ~CallRaised

C28_WitnessFailed ==
    /\ Finished /\ outcome = "FAILED" /\ event.RequestType = "Delete"
    /\ Len(calls) >= 4 /\ Raised(calls[Len(calls)])


\* a finished Create of a generated key pair that neither stores nor exposes
\* the public key, none of whose remote calls raised
PlainCreateAnswered ==
    /\ Finished /\ event.RequestType = "Create"
    /\ Len(New.PublicKey) = 0
    /\ New.StorePublicKey # "true" /\ New.ExposePublicKey # "true"
    /\ ~CallRaised

\* what such a Create comes to in the default format openssh: success after
\* CreateKeyPair and the CreateSecret of the private key, with the placeholder
\* as PublicKeyValue and no public secret
PlainCreateResult ==
    /\ outcome = "SUCCESS"
    /\ Len(calls) = 2
    /\ calls[1].op = "CreateKeyPair" /\ calls[2].op = "CreateSecret"
    /\ calls[2].target = PrivateSecretId(New)
    /\ Attr("PublicKeyValue") = NotRequested
    /\ Attr("PublicKeyARN") = Undefined

\* C29: for a Create of a generated key pair with StorePublicKey and
\* ExposePublicKey both not 'true', the outcome, the remote calls and the
\* response attributes are the same for every PublicKeyFormat, a format the key
\* type cannot be written in included: whatever the format, the Create comes to
\* what it comes to in the format openssh when the services answer alike.
C29_FormatHasNoEffect ==
    PlainCreateAnswered => PlainCreateResult

\* what holds of C29: the format has no effect as long as the key type can be
\* written in it; an ed25519 key pair in the pkcs1 format fails the Create
\* after both calls, although the public key is neither stored nor exposed
C29_FormatDecidesOutcome ==
    PlainCreateAnswered =>
       IF CanEncode(keyPair.KeyMaterial, New.PublicKeyFormat)
       THEN PlainCreateResult
       ELSE /\ New.KeyType = "ed25519" /\ New.PublicKeyFormat = "pkcs1"
            /\ outcome = "FAILED" /\ error = "UnsupportedFormat"
            /\ Len(calls) = 2
            /\ "PublicKeyValue" \notin DOMAIN response

C29_Witness ==
    /\ PlainCreateAnswered
    /\ New.KeyType = "ed25519" /\ New.PublicKeyFormat = "pkcs1"
    /\ outcome = "FAILED" /\ Len(calls) = 2
    /\ secrets[PrivateSecretId(New)].exists

\* the same Create in the format openssh
C29_WitnessOpenssh ==
    /\ PlainCreateAnswered /\ PlainCreateResult
    /\ New.KeyType = "ed25519" /\ New.PublicKeyFormat = "openssh"


\* Name, StorePublicKey or PublicKey differs between the old and the new
\* properties of an Update
NameStoreOrKeyChanged ==
    /\ event.RequestType = "Update"
    /\ \/ Old.Name # New.Name
       \/ Old.StorePublicKey # New.StorePublicKey
       \/ Old.PublicKey # New.PublicKey

ImmutabilityErrors == {RenamedError, StoreChangedError, PublicKeyChangedError}

\* C30: in the promise-executor release of the Update handler, when Name,
\* StorePublicKey or PublicKey changed the event is reported as failed and no
\* EC2 or Secrets Manager call is issued after the rejection.
C30_NoCallAfterRejection ==
    NameStoreOrKeyChanged =>
       /\ pc # "updateResourceP" =>
             outcome = "FAILED" /\ error \in ImmutabilityErrors
       /\ calls = <<>>

\* what holds of C30: the event is reported as failed with the error of the
\* check, whatever follows; but the executor goes on behind reject(...), and
\* DescribeKeyPairs is issued in every such invocation
C30_RejectedButGoesOn ==
    NameStoreOrKeyChanged =>
       /\ pc # "updateResourceP" =>
             outcome = "FAILED" /\ error \in ImmutabilityErrors
       /\ Finished =>
             calls # <<>> /\ calls[1].op = "DescribeKeyPairs"

\* a rejected Update that went on to change the secrets and the key pair's tags
C30_Witness ==
    /\ NameStoreOrKeyChanged /\ Finished
    /\ outcome = "FAILED" /\ error = StoreChangedError
    /\ \E i \in CallIndexes : calls[i].op = "CreateTags" /\ calls[i].result = Ok
    /\ \E i \in CallIndexes : calls[i].op = "UpdateSecret" /\ calls[i].result = Ok
    /\ keyPairs # atStart.keyPairs
    /\ secrets # atStart.secrets


\* an Update whose Name, StorePublicKey and PublicKey are the old ones: the
\* key type check is the one that decides
OnlyKeyTypeDecides ==
    /\ event.RequestType = "Update"
    /\ Old.Name = New.Name
    /\ Old.StorePublicKey = New.StorePublicKey
    /\ Old.PublicKey = New.PublicKey

\* C31: the key type check of Update rejects exactly the Updates in which the
\* denoted key type changes, an absent KeyType denoting rsa: an Update that
\* got past updateResource denotes the same type in its old and its new
\* properties, and one that finished is rejected with the key type error if
\* and only if the denoted types differ; so an Update in which neither the old
\* nor the new properties carry KeyType is not rejected.
C31_SameTypePasses ==
    OnlyKeyTypeDecides =>
       /\ pc \notin {"updateResource", "done"} => KeyTypeOf(Old) = KeyTypeOf(New)
       /\ Finished =>
             (error = KeyTypeChangedError <=> KeyTypeOf(Old) # KeyTypeOf(New))

\* what holds of C31: the default is applied to the old KeyType only, and the
\* new one is compared as sent, so an Update is rejected with the key type
\* error if and only if its new KeyType is not the old key type; new
\* properties that carry no KeyType are rejected whatever the old ones hold
C31_NewTypeComparedAsSent ==
    OnlyKeyTypeDecides =>
       /\ pc \notin {"updateResource", "done"} => New.KeyType = KeyTypeOf(Old)
       /\ Finished =>
             /\ error = KeyTypeChangedError <=> New.KeyType # KeyTypeOf(Old)
             /\ New.KeyType = Undefined =>
                   outcome = "FAILED" /\ error = KeyTypeChangedError /\ calls = <<>>

\* an Update in which neither the old nor the new properties carry KeyType,
\* and nothing else changed, was rejected with the key type error
C31_Witness ==
    /\ Finished /\ event.RequestType = "Update"
    /\ Old = New
    /\ Old.KeyType = Undefined /\ New.KeyType = Undefined
    /\ outcome = "FAILED" /\ error = KeyTypeChangedError
    /\ calls = <<>>


SecretsManagerOps ==
    {"CreateSecret", "UpdateSecret", "TagResource", "UntagResource",
     "GetSecretValue", "ListSecrets", "DeleteSecret"}

\* the ids of the private secrets, under every prefix and name
PrivateSecretIds == {pre \o n \o "/private" : pre \in Prefixes, n \in Names}

\* C32: during an Update of an imported key pair (non-empty PublicKey) no
\* Secrets Manager call targets a private secret: no UpdateSecret, TagResource,
\* UntagResource or GetSecretValue on <SecretPrefix><Name>/private is issued,
\* also when ExposePublicKey is 'true' and the tags changed.
C32_ImportedUpdateSparesPrivateSecret ==
    (event.RequestType = "Update" /\ Len(New.PublicKey) > 0) =>
       /\ pc \notin {"updatePrivateKeySecret", "updateSecretAddTags/private",
                     "updateSecretRemoveTags/private"}
       /\ \A i \in CallIndexes :
             calls[i].op \in SecretsManagerOps =>
                calls[i].target \notin PrivateSecretIds

\* a successful Update of an imported, exposed key pair whose tags changed: the
\* key pair and the public secret were tagged, the imported key was exposed
C32_Witness ==
    /\ Finished /\ event.RequestType = "Update" /\ outcome = "SUCCESS"
    /\ Len(New.PublicKey) > 0
    /\ New.ExposePublicKey = "true"
    /\ Old.Tags # New.Tags
    /\ Attr("PublicKeyValue") = New.PublicKey
    /\ \E i \in CallIndexes : calls[i].op = "CreateTags"
    /\ \E i \in CallIndexes :
          calls[i].op = "TagResource" /\ calls[i].target = PublicSecretId(New)


\* the existence check of the public secret of this Update said there is none
PublicSecretFoundMissing ==
    /\ event.RequestType = "Update"
    /\ New.StorePublicKey = "true"
    /\ \E i \in CallIndexes :
          /\ calls[i].op = "ListSecrets"
          /\ calls[i].target = PublicSecretId(New)
          /\ secretExists(calls[i].result) = "false"

\* the metadata and tag calls sent to the public secret
PublicSecretChanges ==
    {i \in CallIndexes :
        /\ calls[i].op \in {"UpdateSecret", "TagResource", "UntagResource"}
        /\ calls[i].target = PublicSecretId(New)}

\* C33: during Update, UpdateSecret, TagResource and UntagResource are issued
\* against the public secret only if it exists: when StorePublicKey is 'true'
\* and the existence check of <SecretPrefix><Name>/public returns false, no
\* metadata or tag call is sent to it and the Update does not fail because of
\* the missing public secret, also when the tags changed.
C33_MissingPublicSecretSkipped ==
    PublicSecretFoundMissing =>
       /\ PublicSecretChanges = {}
       /\ \A i \in CallIndexes :
             calls[i].target = PublicSecretId(New) =>
                (calls[i].op = "ListSecrets" \/ calls[i].result = Ok)

\* what holds of C33: only UpdateSecret is skipped. When the tags changed,
\* TagResource is sent to the missing secret all the same, it is answered with
\* an error, and the Update fails with it; when they did not, no tag call is
\* sent and nothing fails on the public secret.
C33_OnlyUpdateSecretSkipped ==
    PublicSecretFoundMissing =>
       /\ \A i \in PublicSecretChanges : calls[i].op = "TagResource"
       /\ ~TagsChanged(event) => PublicSecretChanges = {}
       /\ (TagsChanged(event) /\ Finished) =>
             /\ calls[Len(calls)].op = "TagResource"
             /\ calls[Len(calls)].target = PublicSecretId(New)
             /\ calls[Len(calls)].result # Ok
             /\ outcome = "FAILED" /\ error = calls[Len(calls)].result

\* an Update with changed tags whose public secret had been removed: the
\* existence check said so, TagResource was sent and not found, the Update failed
C33_Witness ==
    /\ PublicSecretFoundMissing /\ Finished
    /\ TagsChanged(event)
    /\ ~secrets[PublicSecretId(New)].exists
    /\ calls[Len(calls)].op = "TagResource"
    /\ calls[Len(calls)].target = PublicSecretId(New)
    /\ calls[Len(calls)].result = "ResourceNotFoundException"
    /\ outcome = "FAILED" /\ error = "ResourceNotFoundException"


GetSecretValueCalls == {i \in CallIndexes : calls[i].op = "GetSecretValue"}

\* an Update of a generated key pair whose public key is to be exposed
ExposingUpdateOfGenerated ==
    /\ event.RequestType = "Update"
    /\ Len(New.PublicKey) = 0
    /\ New.ExposePublicKey = "true"

\* C34: GetSecretValue is issued only against <SecretPrefix><Name>/private and
\* only during an Update of a generated key pair with ExposePublicKey 'true';
\* it is the last call of the invocation, after the tag and metadata calls, and
\* is issued once: never twice, and exactly once in every such Update that gets
\* as far as exposing the key (every one that succeeds). Create and Delete
\* never issue GetSecretValue.
C34_GetSecretValueOnlyToExpose ==
    /\ \A i \in GetSecretValueCalls :
          /\ ExposingUpdateOfGenerated
          /\ calls[i].target = PrivateSecretId(New)
          /\ i = Len(calls)
          /\ Finished
    /\ event.RequestType \in {"Create", "Delete"} => GetSecretValueCalls = {}
    /\ (ExposingUpdateOfGenerated /\ Finished /\ outcome = "SUCCESS") =>
          Cardinality(GetSecretValueCalls) = 1

\* a successful Update of a generated, stored and exposed key pair whose tags
\* changed: both secrets were updated and tagged, then the private key was read
\* once and the public key derived from it
C34_Witness ==
    /\ ExposingUpdateOfGenerated /\ Finished /\ outcome = "SUCCESS"
    /\ Old.Tags # New.Tags
    /\ Len(calls) >= 6
    /\ calls[Len(calls)].op = "GetSecretValue"
    /\ calls[Len(calls)].result = Ok
    /\ \E i \in CallIndexes :
          calls[i].op = "TagResource" /\ calls[i].target = PrivateSecretId(New)
    /\ \E i \in CallIndexes :
          calls[i].op = "UpdateSecret" /\ calls[i].target = PublicSecretId(New)
    /\ Attr("PublicKeyValue") =
          PublicKeyString(secrets[PrivateSecretId(New)].SecretString, New.Name,
                          New.PublicKeyFormat)

\* a Create of a generated, exposed key pair: the key was derived without
\* reading any secret
C34_WitnessCreate ==
    /\ Finished /\ event.RequestType = "Create" /\ outcome = "SUCCESS"
    /\ Len(New.PublicKey) = 0 /\ New.ExposePublicKey = "true"
    /\ Attr("PublicKeyValue") # Undefined
    /\ GetSecretValueCalls = {}


\* every private key EC2 can have generated, and such a key in base64
KeyMaterials ==
    {NewKeyMaterial(kt, n) : kt \in KeyTypes, n \in 0..(MaxEvents + 1)}
PrivateKeyTexts == KeyMaterials \cup {Base64(m) : m \in KeyMaterials}

\* the secrets other than the private secret of the event's resource
OtherSecretIds == SecretIds \ {PrivateSecretId(New)}

\* C35: in the current handler the private key material (the KeyMaterial of
\* CreateKeyPair, or the value read by GetSecretValue) is written only to the
\* SecretString of <SecretPrefix><Name>/private: during and after any Create
\* or Update no response attribute holds it, no request other than the
\* CreateSecret of the private secret carries it, and no other secret's value
\* is changed to it; PublicKeyValue and the public secret hold the derived or
\* the imported public key.
C35_PrivateKeyOnlyInPrivateSecret ==
    event.RequestType \in {"Create", "Update"} =>
       /\ \A k \in DOMAIN response : response[k] \notin PrivateKeyTexts
       /\ \A i \in CallIndexes :
             /\ calls[i].SecretString \in PrivateKeyTexts =>
                   /\ calls[i].op = "CreateSecret"
                   /\ calls[i].target = PrivateSecretId(New)
                   /\ calls[i].SecretString = keyPair.KeyMaterial
             /\ (calls[i].op = "GetSecretValue" /\ calls[i].result = Ok) =>
                   secrets[calls[i].target].SecretString \in KeyMaterials
       /\ \A id \in OtherSecretIds :
             (secrets[id].exists /\ secrets[id] # atStart.secrets[id]) =>
                secrets[id].SecretString \notin PrivateKeyTexts
       /\ (secrets[PublicSecretId(New)].exists
           /\ secrets[PublicSecretId(New)] # atStart.secrets[PublicSecretId(New)]
           /\ event.RequestType = "Create") =>
             secrets[PublicSecretId(New)].SecretString =
                IF Len(New.PublicKey) > 0 THEN New.PublicKey
                ELSE PublicKeyString(keyPair.KeyMaterial, New.Name,
                                     New.PublicKeyFormat)

\* a successful Create of a generated key pair that stores and exposes its
\* public key: the key material is in the private secret and nowhere else
C35_Witness ==
    /\ Finished /\ event.RequestType = "Create" /\ outcome = "SUCCESS"
    /\ Len(New.PublicKey) = 0
    /\ New.StorePublicKey = "true" /\ New.ExposePublicKey = "true"
    /\ keyPair.KeyMaterial \in KeyMaterials
    /\ secrets[PrivateSecretId(New)].SecretString = keyPair.KeyMaterial
    /\ secrets[PublicSecretId(New)].SecretString =
          PublicKeyString(keyPair.KeyMaterial, New.Name, New.PublicKeyFormat)
    /\ Attr("PublicKeyValue") \notin PrivateKeyTexts

\* a successful Update that read the private key with GetSecretValue and
\* exposed the public key derived from it
C35_WitnessUpdate ==
    /\ Finished /\ event.RequestType = "Update" /\ outcome = "SUCCESS"
    /\ calls # <<>>
    /\ calls[Len(calls)].op = "GetSecretValue"
    /\ secrets[PrivateSecretId(New)].SecretString \in KeyMaterials
    /\ Attr("PublicKeyValue") \notin PrivateKeyTexts
    /\ Attr("PublicKeyValue") # NotRequested


\* an Update of a generated key pair that has put its PublicKeyValue into the
\* response
ExposedByUpdate ==
    /\ event.RequestType = "Update"
    /\ New.ExposePublicKey = "true"
    /\ Len(New.PublicKey) = 0
    /\ "PublicKeyValue" \in DOMAIN response

\* C36: in the release whose makePublicKey falls back to getPrivateKey when the
\* key pair carries no KeyMaterial, the PublicKeyValue of an Update with
\* ExposePublicKey 'true' is a public key derived from the stored private key
\* in the requested format, never the private key itself.
C36_UpdateExposesPublicKey ==
    ExposedByUpdate =>
       /\ response["PublicKeyValue"] =
             PublicKeyString(secrets[PrivateSecretId(New)].SecretString, New.Name,
                             New.PublicKeyFormat)
       /\ response["PublicKeyValue"] \notin PrivateKeyTexts

\* what holds of C36: the fallback resolves with what getPrivateKey returned,
\* so the PublicKeyValue of such an Update is the SecretString of the private
\* secret, the private key, as it is stored
C36_UpdateExposesPrivateKey ==
    ExposedByUpdate =>
       /\ response["PublicKeyValue"] = secrets[PrivateSecretId(New)].SecretString
       /\ response["PublicKeyValue"] \in KeyMaterials
       /\ calls[Len(calls)].op = "GetSecretValue"
       /\ calls[Len(calls)].result = Ok

\* an Update reported as successful whose PublicKeyValue is the private key
C36_Witness ==
    /\ ExposedByUpdate /\ Finished /\ outcome = "SUCCESS"
    /\ Old.ExposePublicKey = "false"
    /\ response["PublicKeyValue"] = LegacyMaterial
    /\ secrets[PrivateSecretId(New)].SecretString = LegacyMaterial


KeyPairOpsByName ==
    {"CreateKeyPair", "ImportKeyPair", "DescribeKeyPairs", "DeleteKeyPair"}
KeyPairOpsById == {"CreateTags", "DeleteTags"}

\* the two secret names of the event's current properties, spelled out
OwnSecretNames ==
    {New.SecretPrefix \o New.Name \o "/private",
     New.SecretPrefix \o New.Name \o "/public"}

\* C37: every remote call of an invocation targets the key pair named Name (or
\* the id DescribeKeyPairs returned for that name) or one of the two secrets
\* <SecretPrefix><Name>/private and <SecretPrefix><Name>/public of the event's
\* current properties, and no other key pair or secret is changed or deleted
\* while the invocation runs.
C37_OnlyOwnResourcesTargeted ==
    event.RequestType \in {"Create", "Update", "Delete"} =>
       /\ \A i \in CallIndexes :
             /\ calls[i].op \in KeyPairOpsByName => calls[i].target = New.Name
             /\ calls[i].op \in KeyPairOpsById =>
                   /\ calls[1].op = "DescribeKeyPairs"
                   /\ calls[1].target = New.Name /\ calls[1].result = Ok
                   /\ calls[i].target = atStart.keyPairs[New.Name].KeyPairId
             /\ calls[i].op \in SecretsManagerOps =>
                   calls[i].target \in OwnSecretNames
             /\ calls[i].op \in
                   KeyPairOpsByName \cup KeyPairOpsById \cup SecretsManagerOps
       /\ \A n \in Names \ {New.Name} : keyPairs[n] = atStart.keyPairs[n]
       /\ \A id \in SecretIds \ OwnSecretNames : secrets[id] = atStart.secrets[id]

\* a successful Update under the other prefix that updated both secrets of that
\* prefix and read the private one
C37_Witness ==
    /\ Finished /\ event.RequestType = "Update" /\ outcome = "SUCCESS"
    /\ New.SecretPrefix = "alt/"
    /\ \E i \in CallIndexes :
          calls[i].op = "UpdateSecret" /\ calls[i].target = "alt/k1/private"
    /\ \E i \in CallIndexes :
          calls[i].op = "UpdateSecret" /\ calls[i].target = "alt/k1/public"
    /\ \E i \in CallIndexes : calls[i].op = "GetSecretValue"

\* a Delete under the other prefix that removed the key pair and both secrets
C37_WitnessDelete ==
    /\ Finished /\ event.RequestType = "Delete" /\ outcome = "SUCCESS"
    /\ New.SecretPrefix = "alt/"
    /\ \E i \in CallIndexes :
          calls[i].op = "DeleteSecret" /\ calls[i].target = "alt/k1/private"
    /\ \E i \in CallIndexes :
          calls[i].op = "DeleteSecret" /\ calls[i].target = "alt/k1/public"
    /\ \E i \in CallIndexes : calls[i].op = "DeleteKeyPair"

\* an Update that tagged the key pair under the id DescribeKeyPairs returned
C37_WitnessTags ==
    /\ Finished /\ event.RequestType = "Update"
    /\ \E i \in CallIndexes :
          /\ calls[i].op = "CreateTags" /\ calls[i].result = Ok
          /\ calls[i].target = keyPairs[New.Name].KeyPairId


TimedOutError == "Task timed out"

\* the last call of the invocation is a tag call on the private secret that
\* failed
PrivateTagCallFailed ==
    /\ calls # <<>>
    /\ calls[Len(calls)].op \in {"TagResource", "UntagResource"}
    /\ calls[Len(calls)].target = PrivateSecretId(New)
    /\ calls[Len(calls)].result # Ok

\* the last call of the invocation is an existence check of the public secret
\* that failed
PublicExistenceCheckFailed ==
    /\ calls # <<>>
    /\ calls[Len(calls)].op = "ListSecrets"
    /\ calls[Len(calls)].target = PublicSecretId(New)
    /\ secretExistsP(calls[Len(calls)].result) = "throw"

TagStepFailedP ==
    /\ event.RequestType = "Update"
    /\ PrivateTagCallFailed \/ PublicExistenceCheckFailed

\* C38: in the promise-chain secret tag steps, when the tag call on the
\* private secret fails or the existence check of the public secret fails,
\* updateResource rejects: the Update is reported as failed by the function,
\* with an error of its own and not by the runtime ending an invocation that
\* reported nothing.
C38_TagFailureIsReported ==
    TagStepFailedP =>
       /\ outcome = "FAILED"
       /\ error # TimedOutError
       /\ pc # "hung"

\* what holds of C38: nobody handles these rejections, so the promise of the
\* step is never settled and the function stops there. Unless a rejected
\* immutability check had settled the outcome before, the function reports
\* nothing, and the invocation ends only when the runtime ends it.
C38_TagFailureHangs ==
    TagStepFailedP =>
       /\ pc \in {"hung", "done"}
       /\ error # calls[Len(calls)].result
       /\ IF NameStoreOrKeyChanged
          THEN outcome = "FAILED" /\ error \in ImmutabilityErrors
          ELSE IF pc = "hung"
          THEN outcome = "none"
          ELSE outcome = "FAILED" /\ error = TimedOutError

\* an Update with changed tags whose TagResource on the private secret failed:
\* the function reported nothing and the runtime ended the invocation
C38_Witness ==
    /\ TagStepFailedP /\ PrivateTagCallFailed /\ Finished
    /\ ~NameStoreOrKeyChanged
    /\ calls[Len(calls)].op = "TagResource"
    /\ calls[Len(calls)].result = ServiceError
    /\ outcome = "FAILED" /\ error = TimedOutError

\* the same after a failed existence check of the public secret, the function
\* still waiting
C38_WitnessHung ==
    /\ TagStepFailedP /\ PublicExistenceCheckFailed
    /\ ~NameStoreOrKeyChanged
    /\ \E i \in CallIndexes : calls[i].op = "TagResource" /\ calls[i].result = Ok
    /\ pc = "hung" /\ outcome = "none"

====
